---------------------------- MODULE Spec2Model ----------------------------
(***************************************************************************)
(* Model of the telemetry state engine of NiceGUIMQTT: state.py (shared    *)
(* store), mqtt_handler.py (ingestion, selection and subscriptions),       *)
(* sensor_config.py (metric catalog) and pages/dashboard_page.py (session  *)
(* controller, snapshot store, channel selection).                         *)
(*                                                                         *)
(* Conventions.                                                            *)
(*  - A Python float is a fixed-point integer in hundredths: 2.5 is 250,   *)
(*    0.25 s is 25.  Every float the modelled inputs produce is exact in   *)
(*    hundredths.                                                          *)
(*  - Optional[x] is a sequence: None is << >>, a value v is <<v>>.        *)
(*  - A qualified metric id f'{sensor}:{mid}' is the pair <<sensor, mid>>. *)
(*  - A topic f'{EQ_PREFIX}/{sensor}/data' is <<EQ_PREFIX, sensor,"data">>.*)
(*  - A JSON value is <<kind, n>>: <<"int", n>>, <<"float", hundredths>>,  *)
(*    <<"null", 0>>, <<"bad", 0>> (a string float() and int() both reject).*)
(*  - Two threads run: the UI event loop (page handlers and timers, one    *)
(*    handler at a time) and the MQTT network loop (on_connect,            *)
(*    on_message).  A step is one data_lock or sensor_lock section, one    *)
(*    subscribe or unsubscribe call, or one run of other unlocked code     *)
(*    between two of them.                                                 *)
(***************************************************************************)
EXTENDS Integers, Sequences, FiniteSets, TLC

\* ------------------------------------------------------------------ bounds
\* Samples recorded in one session of the general specification.
MaxTicks == 2
\* Snapshots kept in the Snapshot Store of the general specification.
MaxSeries == 2
\* Length of a sensor list handed to page_dashboard.
MaxListLen == 2
\* Appends past MAX_POINTS in the ring-buffer specification.
RingExtra == 3
\* Samples past the duration limit in the auto-stop specification.
AutoTicks == 11
\* Seconds the clock advances in the discovery specification.
MaxClock == 6

\* --------------------------------------------------------- program constants
EQ_PREFIX == "EQ1"
SAMPLE_HZ == 4
WINDOW_S == 60
\* SENSOR_STALE_S = 5.0, in seconds
SENSOR_STALE_S == 5
\* time.time() when the program starts, in seconds (any value of the present day
\* is far above SENSOR_STALE_S)
Epoch == 100
\* SAMPLE_PERIOD_S = 1.0 / SAMPLE_HZ, in hundredths of a second
SAMPLE_PERIOD_S == 100 \div SAMPLE_HZ
\* MAX_POINTS = int(WINDOW_S * SAMPLE_HZ + 10)
MAX_POINTS == WINDOW_S * SAMPLE_HZ + 10

None == << >>
Some(v) == <<v>>

Range(s) == {s[i] : i \in 1..Len(s)}

\* ------------------------------------------------------------ metric catalog
\* sensor_config.SENSOR_TYPES: required_keys, metrics (id, json_key, scale in
\* hundredths) and avg_dropped_key per sensor type.
SENSOR_TYPES ==
  [Mov |-> [required_keys |-> <<"t_ms", "cm", "v_cm_s", "a_cm_s2">>,
            metrics |-> << [id |-> "dist_m",   json_key |-> "cm",      scale |-> 1],
                           [id |-> "vel_m_s",  json_key |-> "v_cm_s",  scale |-> 1],
                           [id |-> "acc_m_s2", json_key |-> "a_cm_s2", scale |-> 1] >>,
            avg_dropped_key |-> None],
   Gyro |-> [required_keys |-> <<"t_ms", "temp_c", "ax", "ay", "az", "gx", "gy", "gz">>,
            metrics |-> << [id |-> "temp_c", json_key |-> "temp_c", scale |-> 100],
                           [id |-> "ax", json_key |-> "ax", scale |-> 100],
                           [id |-> "ay", json_key |-> "ay", scale |-> 100],
                           [id |-> "az", json_key |-> "az", scale |-> 100],
                           [id |-> "gx", json_key |-> "gx", scale |-> 100],
                           [id |-> "gy", json_key |-> "gy", scale |-> 100],
                           [id |-> "gz", json_key |-> "gz", scale |-> 100] >>,
            avg_dropped_key |-> None],
   Lux |-> [required_keys |-> <<"t_ms", "Lux">>,
            metrics |-> << [id |-> "Lux", json_key |-> "Lux", scale |-> 100] >>,
            avg_dropped_key |-> None]]

DEFAULT_TYPE_PROFILE ==
  [required_keys |-> <<"t_ms">>, metrics |-> << >>, avg_dropped_key |-> Some("avg_dropped")]

\* The sensors that publish in the model: two catalogued types and one the
\* catalog does not know.
Sensors == {"SensorMov", "SensorLux", "SensorX"}

\* sensor_type: 'Sensor<Tipo>' -> '<Tipo>'
sensor_type(sensor_name) ==
  IF Len(sensor_name) > Len("Sensor") /\ SubSeq(sensor_name, 1, Len("Sensor")) = "Sensor"
  THEN SubSeq(sensor_name, Len("Sensor") + 1, Len(sensor_name))
  ELSE sensor_name

get_profile(sensor_name) ==
  IF sensor_type(sensor_name) \in DOMAIN SENSOR_TYPES
  THEN SENSOR_TYPES[sensor_type(sensor_name)]
  ELSE DEFAULT_TYPE_PROFILE

get_metrics(sensor_name) == get_profile(sensor_name).metrics

get_metric_ids(sensor_name) ==
  [i \in 1..Len(get_metrics(sensor_name)) |-> get_metrics(sensor_name)[i].id]

\* ------------------------------------------------------------- sequences
RECURSIVE Flatten(_)
Flatten(ss) == IF ss = << >> THEN << >> ELSE Head(ss) \o Flatten(Tail(ss))

Contains(s, x) == \E i \in 1..Len(s) : s[i] = x

\* The elements of s for which Keep holds, in order.
RECURSIVE FilterSeq(_, _)
FilterSeq(s, keep) ==
  IF s = << >> THEN << >>
  ELSE (IF Head(s) \in keep THEN <<Head(s)>> ELSE << >>) \o FilterSeq(Tail(s), keep)

\* Empty names and duplicates dropped, first occurrence kept (the
\* seen/sensors_unique loop: 'if s and s not in seen').
RECURSIVE Dedup(_, _)
Dedup(s, seen) ==
  IF s = << >> THEN << >>
  ELSE IF Head(s) = "" \/ Head(s) \in seen THEN Dedup(Tail(s), seen)
       ELSE <<Head(s)>> \o Dedup(Tail(s), seen \cup {Head(s)})

\* The printable ASCII characters in code point order (all but the grave
\* accent, which a TLA+ string cannot hold): the order of str comparison.
Ascii ==
  " !\"#$%&'()*+,-./0123456789:;<=>?@ABCDEFGHIJKLMNOPQRSTUVWXYZ[\\]^_abcdefghijklmnopqrstuvwxyz{|}~"

CodePoint(c) == CHOOSE i \in 1..Len(Ascii) : SubSeq(Ascii, i, i) = c

\* a < b on str
RECURSIVE StrLess(_, _)
StrLess(a, b) ==
  IF b = "" THEN FALSE
  ELSE IF a = "" THEN TRUE
  ELSE IF SubSeq(a, 1, 1) = SubSeq(b, 1, 1)
       THEN StrLess(SubSeq(a, 2, Len(a)), SubSeq(b, 2, Len(b)))
       ELSE CodePoint(SubSeq(a, 1, 1)) < CodePoint(SubSeq(b, 1, 1))

\* sorted(names) for a set of str
RECURSIVE sorted(_)
sorted(names) ==
  IF names = {} THEN << >>
  ELSE LET first == CHOOSE x \in names : \A y \in names \ {x} : StrLess(x, y)
       IN  <<first>> \o sorted(names \ {first})

\* Sequences over S of length 1..n
SeqsUpTo(S, n) == UNION {[1..k -> S] : k \in 1..n}

\* ----------------------------------------------------------- conversions
\* dict.get(key): None for an absent key
JsonGet(j, key) == IF key \in DOMAIN j THEN j[key] ELSE <<"null", 0>>

\* _to_float: None for None and for what float() rejects
_to_float(v) ==
  CASE v[1] = "int" -> Some(100 * v[2])
    [] v[1] = "float" -> Some(v[2])
    [] OTHER -> None

\* int() of a float in hundredths: the fraction is cut off, towards zero
Trunc(x) == IF x >= 0 THEN x \div 100 ELSE -((-x) \div 100)

\* _to_int: int(v), else int(float(v)), else None; int() truncates a float
_to_int(v) ==
  CASE v[1] = "int" -> Some(v[2])
    [] v[1] = "float" -> Some(Trunc(v[2]))
    [] OTHER -> None

\* val * float(scale) on hundredths
FMul(a, b) == (a * b) \div 100

\* deque(maxlen=MAX_POINTS).append
\* A buffer without maxlen.
DequeAppend_unbounded(d, x) == Append(d, x)

DequeAppend(d, x) == IF Len(d) >= MAX_POINTS THEN Tail(d) \o <<x>> ELSE Append(d, x)

TopicOf(sensor_name) == <<EQ_PREFIX, sensor_name, "data">>

\* ------------------------------------------------------------------ state
VARIABLES
  \* state.py, shared store
  selected_sensor, current_topic, selected_sensors, current_topics,
  selected_channel_map, buf_t_s, buf_values, last_t_s, last_values,
  last_avg_dropped, current_metric_ids, measurement_duration_s, is_measuring,
  measurement_sample_index, measurement_elapsed_s, series_data, series_counter,
  display_series_index,
  \* transport (paho client of start_mqtt): connection and broker-side subscriptions
  connected, subscribed,
  \* subscribe/unsubscribe calls issued by the set_current_sensors in progress or last run
  calls,
  \* UI event loop: the handler in progress and its locals
  ui,
  \* the dashboard page of the client: closure variables sensor_names, metric_ids
  page,
  \* the step taken last: which handler ran and how it ended
  ev,
  \* MQTT network loop: the callback in progress and its locals
  net,
  \* history of the current recording: what was appended since the buffers were
  \* last cleared (t, v), the value each metric's sensor last produced at a tick
  \* (last), and whether the selection is as it was when start() finished (clean)
  hist,
  \* state.py, discovery: the sensors seen on EQ1/# and when each was last seen
  available_sensors, sensor_last_seen,
  \* time.time(), in seconds
  now,
  \* the selector page of the client: closure variable selected_sensors, the
  \* checkboxes the last sensor_checklist drew, and the address open_dashboard
  \* asked the browser for
  selector,
  \* history of the discovery: when each sensor was last announced, and what the
  \* last sensor_checklist of the page returned and evicted, on which clock value
  track

selection == <<selected_sensor, current_topic, selected_sensors, current_topics>>
series == <<series_data, series_counter, display_series_index>>
session == <<measurement_duration_s, is_measuring, measurement_sample_index,
             measurement_elapsed_s>>
buffers == <<buf_t_s, buf_values, last_t_s, last_values, last_avg_dropped,
             current_metric_ids>>
transport == <<connected, subscribed, calls>>
discovery == <<available_sensors, sensor_last_seen, now, selector, track>>
\* What the discovery leaves alone.
measurement == <<selection, selected_channel_map, buffers, session, series, transport,
                 ui, page, net, hist>>

vars == <<selected_sensor, current_topic, selected_sensors, current_topics,
          selected_channel_map, buf_t_s, buf_values, last_t_s, last_values,
          last_avg_dropped, current_metric_ids, measurement_duration_s,
          is_measuring, measurement_sample_index, measurement_elapsed_s,
          series_data, series_counter, display_series_index, connected,
          subscribed, calls, ui, page, ev, net, hist, available_sensors,
          sensor_last_seen, now, selector, track>>

\* Every qualified metric id of the modelled sensors.
AllQids == UNION {{<<s, get_metric_ids(s)[i]>> : i \in 1..Len(get_metric_ids(s))} : s \in Sensors}

UiIdle == [pc |-> "idle", names |-> << >>, uniq |-> << >>, prev |-> << >>,
           old_topics |-> << >>, todo |-> << >>, ids |-> << >>, elapsed |-> 0,
           clock |-> 0, caller |-> "", via |-> "",
           copy |-> [t_s |-> << >>, values |-> << >>]]
NetIdle == [pc |-> "idle", sensor |-> "", payload |-> << >>, channels |-> None,
            topics |-> << >>]
NoPage == [open |-> FALSE, sensor_names |-> << >>, metric_ids |-> << >>,
           series_options |-> {}, series_value |-> << >>]
HistInit == [t |-> << >>, v |-> [m \in {} |-> << >>],
             last |-> [m \in AllQids |-> None], clean |-> FALSE, session |-> FALSE,
             wiped |-> 0]

NoSelector == [open |-> FALSE, selected_sensors |-> {}, shown |-> {}, pending |-> None]
TrackInit == [announced |-> [s \in Sensors |-> None], returned |-> {}, evicted |-> {},
              clock |-> 0]

\* The module-level assignments of state.py.
InitState ==
  /\ selected_sensor = None
  /\ current_topic = None
  /\ selected_sensors = << >>
  /\ current_topics = [s \in {} |-> TopicOf(s)]
  /\ selected_channel_map = [s \in {} |-> {}]
  /\ buf_t_s = << >>
  /\ buf_values = [m \in {} |-> << >>]
  /\ last_t_s = None
  /\ last_values = [m \in {} |-> None]
  /\ last_avg_dropped = None
  /\ current_metric_ids = << >>
  /\ measurement_duration_s = None
  /\ is_measuring = FALSE
  /\ measurement_sample_index = 0
  /\ measurement_elapsed_s = 0
  /\ series_data = << >>
  /\ series_counter = 0
  /\ display_series_index = None
  /\ connected = FALSE
  /\ subscribed = {}
  /\ calls = {}
  /\ ui = UiIdle
  /\ page = NoPage
  /\ ev = "init"
  /\ net = NetIdle
  /\ hist = HistInit
  /\ available_sensors = {}
  /\ sensor_last_seen = [s \in {} |-> 0]
  /\ selector = NoSelector
  /\ track = TrackInit

\* The program starts on a machine whose clock was set long ago.
Init == InitState /\ now = Epoch

\* The program starts on a machine whose clock was set long ago, or on one whose
\* clock starts at zero with the machine.
InitDiscovery == InitState /\ now \in {0, Epoch}

\* ------------------------------------------------------------- store (state.py)
\* A variant that builds every buffer and last value afresh.
ensure_metric_buffers_fresh(metric_ids) ==
  /\ current_metric_ids' = metric_ids
  /\ buf_values' = [m \in Range(metric_ids) |-> << >>]
  /\ last_values' = [m \in Range(metric_ids) |-> None]

\* ensure_metric_buffers: current_metric_ids replaced; buffers and last values
\* created for new ids, dropped for ids no longer listed.
ensure_metric_buffers(metric_ids) ==
  /\ current_metric_ids' = metric_ids
  /\ buf_values' = [m \in Range(metric_ids) |->
                      IF m \in DOMAIN buf_values THEN buf_values[m] ELSE << >>]
  /\ last_values' = [m \in Range(metric_ids) |->
                      IF m \in DOMAIN last_values THEN last_values[m] ELSE None]

\* A reset that leaves the saved series alone.
reset_all_state_keep_series ==
  /\ buf_t_s' = << >>
  /\ buf_values' = [m \in DOMAIN buf_values |-> << >>]
  /\ last_t_s' = None
  /\ last_values' = [m \in DOMAIN last_values |-> None]
  /\ last_avg_dropped' = None
  /\ measurement_duration_s' = None
  /\ is_measuring' = FALSE
  /\ measurement_sample_index' = 0
  /\ measurement_elapsed_s' = 0
  /\ UNCHANGED <<series_data, series_counter, display_series_index>>

\* A reset that keeps the last values and the sample index.
reset_all_state_keep_last ==
  /\ buf_t_s' = << >>
  /\ buf_values' = [m \in DOMAIN buf_values |-> << >>]
  /\ last_t_s' = None
  /\ last_values' = last_values
  /\ last_avg_dropped' = None
  /\ measurement_duration_s' = None
  /\ is_measuring' = FALSE
  /\ measurement_sample_index' = measurement_sample_index
  /\ measurement_elapsed_s' = 0
  /\ series_data' = << >>
  /\ series_counter' = 0
  /\ display_series_index' = None

\* reset_all_state: buffers, last values, measurement control, series and view.
reset_all_state ==
  /\ buf_t_s' = << >>
  /\ buf_values' = [m \in DOMAIN buf_values |-> << >>]
  /\ last_t_s' = None
  /\ last_values' = [m \in DOMAIN last_values |-> None]
  /\ last_avg_dropped' = None
  /\ measurement_duration_s' = None
  /\ is_measuring' = FALSE
  /\ measurement_sample_index' = 0
  /\ measurement_elapsed_s' = 0
  /\ series_data' = << >>
  /\ series_counter' = 0
  /\ display_series_index' = None

\* History kept beside the store operations above.
HistCleared == [hist EXCEPT !.t = << >>, !.v = [m \in DOMAIN hist.v |-> << >>],
                            !.last = [m \in AllQids |-> None]]
HistEnsured(metric_ids) ==
  [hist EXCEPT !.v = [m \in Range(metric_ids) |->
                        IF m \in DOMAIN hist.v THEN hist.v[m] ELSE << >>],
               !.clean = FALSE]

\* The data_lock is free unless a handler blocked while holding it.
LockFree == ui.pc # "blocked"

\* ------------------------------------------------- ingestion (mqtt_handler.py)
\* One metric of the profile read from the JSON object: float(raw) * scale, None
\* when the field is absent, null or not a number.
MetricValue(m, j) ==
  LET val == _to_float(JsonGet(j, m.json_key))
  IN  IF val # None THEN Some(FMul(val[1], m.scale)) ELSE None

\* The metrics of the sensor's profile kept by the channel selection read in the
\* first lock section (None: no restriction).
ChannelMetrics(sensor_name, channels) ==
  {i \in 1..Len(get_metrics(sensor_name)) :
     channels = None \/ get_metrics(sensor_name)[i].id \in channels[1]}

\* prefixed_values: qualified metric id -> scaled value
PrefixedValues(sensor_name, j, channels) ==
  LET ms == get_metrics(sensor_name)
      keep == ChannelMetrics(sensor_name, channels)
      byId == [q \in {<<sensor_name, ms[i].id>> : i \in keep} |->
                 CHOOSE i \in keep : ms[i].id = q[2]]
  IN  [q \in DOMAIN byId |-> MetricValue(ms[byId[q]], j)]

\* A validation that does not look at t_ms.
Accepts_any_time(sensor_name, payload) ==
  /\ payload.kind = "object"
  /\ \A i \in 1..Len(get_profile(sensor_name).required_keys) :
       LET rk == get_profile(sensor_name).required_keys[i]
       IN  rk = "t_ms" \/ rk \in DOMAIN payload.fields

\* The payload decodes to a JSON object, t_ms converts and every required key of
\* the profile is present.
Accepts(sensor_name, payload) ==
  /\ payload.kind = "object"
  /\ _to_int(JsonGet(payload.fields, "t_ms")) # None
  /\ \A i \in 1..Len(get_profile(sensor_name).required_keys) :
       LET rk == get_profile(sensor_name).required_keys[i]
       IN  rk = "t_ms" \/ rk \in DOMAIN payload.fields

\* avg_dropped of the message: read only when the profile names a key for it
AvgDropped(sensor_name, j) ==
  LET avg_key == get_profile(sensor_name).avg_dropped_key
  IN  IF avg_key # None THEN _to_int(JsonGet(j, avg_key[1])) ELSE None

\* t_rel_s = measurement_sample_index * sample_period
TickTime(index) == index * SAMPLE_PERIOD_S

\* The value a tick appends for an active metric: the one this message computed,
\* else the last known one.
TickValue(mid, prefixed_values, lv) ==
  IF mid \in DOMAIN prefixed_values THEN prefixed_values[mid]
  ELSE IF mid \in DOMAIN lv THEN lv[mid] ELSE None

\* A second lock section that stores no value.
LastValuesAfter_unchanged(prefixed_values) == last_values

\* last_values after the message's values were stored
LastValuesAfter(prefixed_values) ==
  [k \in DOMAIN last_values \cup DOMAIN prefixed_values |->
     IF k \in DOMAIN prefixed_values THEN prefixed_values[k] ELSE last_values[k]]

\* A tick that appends only the values its own message computed.
TickBuffers_computed_only(bv, ids, prefixed_values, lv) ==
  [mid \in DOMAIN bv |->
     IF mid \in Range(ids) /\ mid \in DOMAIN prefixed_values
     THEN DequeAppend(bv[mid], prefixed_values[mid])
     ELSE bv[mid]]

\* The value buffers after one tick: one append per id of current_metric_ids.
TickBuffers(bv, ids, prefixed_values, lv) ==
  [mid \in DOMAIN bv |->
     IF mid \in Range(ids) THEN DequeAppend(bv[mid], TickValue(mid, prefixed_values, lv))
     ELSE bv[mid]]

\* json.loads returned something other than a dict (a list, a number, a string,
\* None): j.get('t_ms') raises AttributeError outside every try block.
GetRaises(payload) == payload.kind \in {"array", "number", "string", "null"}

\* mqtt_on_message up to the end of validation: the topic, the first lock section
\* (selected? channel restriction), decoding and the required keys.  A message that
\* fails any of them is dropped; a decoded payload without .get ends the callback
\* with an exception, which leaves the state as it was.
OnMessageRecv(msgs) ==
  /\ net.pc = "idle"
  /\ connected
  /\ LockFree
  /\ \E msg \in msgs :
       LET parts == msg.topic
           sensor_name == parts[2]
       IN  IF \/ Len(parts) < 3 \/ parts[1] # EQ_PREFIX \/ parts[3] # "data"
              \/ ~Contains(selected_sensors, sensor_name)
           THEN /\ ev' = "message_dropped"
                /\ net' = NetIdle
           ELSE IF GetRaises(msg.payload)
           THEN /\ ev' = "message_raised"
                /\ net' = NetIdle
           ELSE IF ~Accepts(sensor_name, msg.payload)
           THEN /\ ev' = "message_dropped"
                /\ net' = NetIdle
           ELSE /\ ev' = "message_accepted"
                /\ net' = [NetIdle EXCEPT
                             !.pc = "write", !.sensor = sensor_name,
                             !.payload = msg.payload.fields,
                             !.channels = IF sensor_name \in DOMAIN selected_channel_map
                                          THEN Some(selected_channel_map[sensor_name])
                                          ELSE None]
  /\ UNCHANGED <<selection, selected_channel_map, buffers, session, series, transport,
                 ui, page, hist>>
  /\ UNCHANGED discovery

\* mqtt_on_message, second lock section: last values always, one tick when measuring.
OnMessageWrite(maxTicks) ==
  /\ net.pc = "write"
  /\ LockFree
  /\ is_measuring => measurement_sample_index < maxTicks
  /\ LET pv == PrefixedValues(net.sensor, net.payload, net.channels)
         lv == LastValuesAfter(pv)
         t_rel_s == TickTime(measurement_sample_index)
     IN  /\ last_avg_dropped' = AvgDropped(net.sensor, net.payload)
         /\ last_values' = lv
         /\ IF is_measuring
            THEN /\ measurement_sample_index' = measurement_sample_index + 1
                 /\ measurement_elapsed_s' = t_rel_s
                 /\ last_t_s' = Some(t_rel_s)
                 /\ buf_t_s' = DequeAppend(buf_t_s, t_rel_s)
                 /\ buf_values' = TickBuffers(buf_values, current_metric_ids, pv, lv)
                 /\ hist' = [hist EXCEPT
                      !.t = Append(hist.t, t_rel_s),
                      !.v = [mid \in DOMAIN hist.v |->
                               IF mid \in Range(current_metric_ids)
                               THEN Append(hist.v[mid], TickValue(mid, pv, lv))
                               ELSE hist.v[mid]],
                      !.last = [mid \in AllQids |->
                                  IF mid \in DOMAIN pv THEN Some(pv[mid]) ELSE hist.last[mid]]]
            ELSE UNCHANGED <<measurement_sample_index, measurement_elapsed_s, last_t_s,
                             buf_t_s, buf_values, hist>>
  /\ net' = NetIdle
  /\ ev' = IF is_measuring THEN "message_tick" ELSE "message_last"
  /\ UNCHANGED <<selection, selected_channel_map, current_metric_ids,
                 measurement_duration_s, is_measuring, series, transport, ui, page>>
  /\ UNCHANGED discovery

\* list(topics.values()): the topics of a topic map in the order of its keys,
\* which is the order of the selection installed with it.
TopicList(order, topics) ==
  LET keys == FilterSeq(order, DOMAIN topics)
  IN  [i \in 1..Len(keys) |-> topics[keys[i]]]

\* mqtt_on_connect with rc == 0: the topics are read under the lock.
OnConnect ==
  /\ net.pc = "idle"
  /\ ~connected
  /\ LockFree
  /\ connected' = TRUE
  /\ net' = [NetIdle EXCEPT !.pc = "subscribe",
                            !.topics = IF DOMAIN current_topics # {}
                                       THEN TopicList(selected_sensors, current_topics)
                                       ELSE IF current_topic # None THEN <<current_topic[1]>>
                                       ELSE << >>]
  /\ ev' = "connect"
  /\ UNCHANGED <<selection, selected_channel_map, buffers, session, series,
                 subscribed, calls, ui, page, hist>>
  /\ UNCHANGED discovery

\* mqtt_on_connect, one turn of 'for t in topics': client.subscribe(t) for the
\* next topic read, if any; the handler returns after the last one.
OnConnectSubscribe ==
  /\ net.pc = "subscribe"
  /\ subscribed' = IF net.topics = << >> THEN subscribed
                    ELSE subscribed \cup {Head(net.topics)}
  /\ IF Len(net.topics) <= 1
     THEN /\ net' = NetIdle
          /\ ev' = "connect_subscribe"
     ELSE /\ net' = [net EXCEPT !.topics = Tail(@)]
          /\ ev' = "connect_call"
  /\ UNCHANGED <<selection, selected_channel_map, buffers, session, series,
                 connected, calls, ui, page, hist>>
  /\ UNCHANGED discovery

\* ------------------------------------- selection (mqtt_handler.set_current_sensors)
\* The qualified metric ids of every metric of the sensors, in order.
MetricIdsPrefixed(sensors_unique) ==
  Flatten([i \in 1..Len(sensors_unique) |->
             [k \in 1..Len(get_metric_ids(sensors_unique[i])) |->
                <<sensors_unique[i], get_metric_ids(sensors_unique[i])[k]>>]])

NewTopics(sensors_unique) == [s \in Range(sensors_unique) |-> TopicOf(s)]

TopicValues(topics) == {topics[s] : s \in DOMAIN topics}

\* An unsubscription of every old topic, kept or not.
Unsubscribed_all(old_topics, new_topics) == TopicValues(old_topics)

\* The topics set_current_sensors unsubscribes and subscribes.
Unsubscribed(old_topics, new_topics) == TopicValues(old_topics) \ TopicValues(new_topics)

\* A subscription of every new topic, known or not.
Subscribed_all(old_topics, new_topics) == TopicValues(new_topics)

Subscribed(old_topics, new_topics) == TopicValues(new_topics) \ TopicValues(old_topics)

\* The calls of the two loops that end set_current_sensors, in order: an
\* unsubscribe for each old topic that is not a new one, then a subscribe for each
\* new topic that is not an old one.
TopicCalls(old_order, old_topics, sensors_unique) ==
  LET new_topics == NewTopics(sensors_unique)
      unsub == FilterSeq(TopicList(old_order, old_topics),
                         Unsubscribed(old_topics, new_topics))
      sub == FilterSeq(TopicList(sensors_unique, new_topics),
                       Subscribed(old_topics, new_topics))
  IN  [i \in 1..Len(unsub) |-> <<"unsubscribe", unsub[i]>>]
        \o [i \in 1..Len(sub) |-> <<"subscribe", sub[i]>>]

\* Where the handler that called set_current_sensors goes on: page_dashboard
\* builds the page; open_dashboard and set_current_sensor return (open_dashboard
\* after asking the browser to navigate).
AfterSetSensors(via) ==
  CASE via = "page_dashboard" -> "page_build"
    [] OTHER -> "idle"

\* set_current_sensors(sensors) up to the end of its first lock section: an empty
\* list returns at once; otherwise the list is deduplicated and prev_sensors is
\* read.  The store is reset next when the set of sensors changes.
set_current_sensors(sensors, via) ==
  LET sensors_unique == Dedup(sensors, {})
  IN  /\ LockFree
      /\ IF sensors = << >>
         THEN ui' = [UiIdle EXCEPT !.pc = AfterSetSensors(via), !.via = via]
         ELSE ui' = [UiIdle EXCEPT
                       !.pc = IF Range(selected_sensors) # Range(sensors_unique)
                              THEN "scs_reset" ELSE "scs_ensure",
                       !.names = sensors, !.uniq = sensors_unique,
                       !.prev = selected_sensors, !.via = via]
      /\ hist' = [hist EXCEPT !.clean = FALSE, !.wiped = 0]
      /\ calls' = {}
      /\ UNCHANGED <<selection, selected_channel_map, buffers, session, series,
                     connected, subscribed, net>>

\* set_current_sensor(sensor): nothing for an empty name, else
\* set_current_sensors([sensor]).  No code of the repository calls it.
set_current_sensor(sensor) ==
  /\ ui.pc = "idle"
  /\ IF sensor = ""
     THEN UNCHANGED <<measurement>>
     ELSE /\ set_current_sensors(<<sensor>>, "set_current_sensor")
          /\ UNCHANGED page
  /\ ev' = "set_current_sensor"
  /\ UNCHANGED discovery

\* [s for s in sensors.split(',') if s], on the names between the commas
NonEmptyNames(names) == SelectSeq(names, LAMBDA s : s # "")

\* The requests for /dashboard/<names> that can arrive: one for each address
\* typed, and the one the browser makes for the navigation open_dashboard asked
\* for.  lists holds, for each address, the names between its commas.
DashboardRequests(lists) ==
  {<<"address", names>> : names \in lists}
    \cup (IF selector.pending # None THEN {<<"navigation", selector.pending[1]>>} ELSE {})

\* page_dashboard(sensors), up to the end of the first lock section of
\* set_current_sensors.  Without a name the page shows 'No se especifico ningun
\* sensor' and returns.  The navigation leaves the selector page.
PageDashboard(lists) ==
  /\ ui.pc = "idle"
  /\ \E request \in DashboardRequests(lists) :
       LET sensor_names == NonEmptyNames(request[2])
       IN  /\ IF sensor_names = << >>
              THEN /\ ui' = UiIdle
                   /\ UNCHANGED <<selection, selected_channel_map, buffers, session,
                                  series, transport, net, hist>>
              ELSE set_current_sensors(sensor_names, "page_dashboard")
           /\ selector' = IF request[1] = "navigation" THEN NoSelector ELSE selector
  /\ page' = NoPage
  /\ ev' = "page_dashboard"
  /\ UNCHANGED <<available_sensors, sensor_last_seen, now, track>>

\* set_current_sensors: state.reset_all_state() when the set of sensors changed
SetSensorsReset ==
  /\ ui.pc = "scs_reset"
  /\ LockFree
  /\ reset_all_state
  /\ hist' = [HistCleared EXCEPT !.clean = FALSE, !.session = FALSE,
                                 !.wiped = Len(series_data)]
  /\ ui' = [ui EXCEPT !.pc = "scs_ensure"]
  /\ ev' = "set_sensors_reset"
  /\ UNCHANGED <<selection, selected_channel_map, current_metric_ids, transport,
                 page, net>>
  /\ UNCHANGED discovery

\* A set_current_sensors that prepares the metrics of the first sensor only.
SetSensorsEnsure_first_sensor ==
  /\ ui.pc = "scs_ensure"
  /\ LockFree
  /\ ensure_metric_buffers(MetricIdsPrefixed(<<ui.uniq[1]>>))
  /\ hist' = HistEnsured(MetricIdsPrefixed(<<ui.uniq[1]>>))
  /\ ui' = [ui EXCEPT !.pc = "scs_install"]
  /\ ev' = "set_sensors_ensure"
  /\ UNCHANGED <<selection, selected_channel_map, buf_t_s, last_t_s, last_avg_dropped,
                 session, series, transport, page, net>>
  /\ UNCHANGED discovery

\* set_current_sensors: state.ensure_metric_buffers(metric_ids_prefixed)
SetSensorsEnsure ==
  /\ ui.pc = "scs_ensure"
  /\ LockFree
  /\ ensure_metric_buffers(MetricIdsPrefixed(ui.uniq))
  /\ hist' = HistEnsured(MetricIdsPrefixed(ui.uniq))
  /\ ui' = [ui EXCEPT !.pc = "scs_install"]
  /\ ev' = "set_sensors_ensure"
  /\ UNCHANGED <<selection, selected_channel_map, buf_t_s, last_t_s, last_avg_dropped,
                 session, series, transport, page, net>>
  /\ UNCHANGED discovery

\* set_current_sensors: the selection and the topic map are installed.
SetSensorsInstall ==
  /\ ui.pc = "scs_install"
  /\ LockFree
  /\ selected_sensors' = ui.uniq
  /\ current_topics' = NewTopics(ui.uniq)
  /\ selected_sensor' = IF ui.uniq # << >> THEN Some(ui.uniq[1]) ELSE None
  /\ current_topic' = IF ui.uniq # << >> THEN Some(NewTopics(ui.uniq)[ui.uniq[1]]) ELSE None
  /\ ui' = [ui EXCEPT !.pc = "scs_diff", !.old_topics = current_topics,
                       !.todo = TopicCalls(selected_sensors, current_topics, ui.uniq)]
  /\ ev' = "set_sensors_install"
  /\ UNCHANGED <<selected_channel_map, buffers, session, series, transport, page,
                 net, hist>>
  /\ UNCHANGED discovery

\* client.unsubscribe(topic) or client.subscribe(topic).  A call on a client that
\* is not connected registers nothing at the broker.
TransportCall(call) ==
  /\ calls' = calls \cup {call}
  /\ subscribed' = IF ~connected THEN subscribed
                    ELSE IF call[1] = "unsubscribe" THEN subscribed \ {call[2]}
                    ELSE subscribed \cup {call[2]}

\* set_current_sensors, one turn of the loops of the topic diff: the next call on
\* the transport, if any.  After the last one the function returns, and
\* open_dashboard asks the browser for /dashboard/<names>.
SetSensorsDiff ==
  /\ ui.pc = "scs_diff"
  /\ IF ui.todo = << >> THEN UNCHANGED <<calls, subscribed>>
     ELSE TransportCall(Head(ui.todo))
  /\ IF Len(ui.todo) <= 1
     THEN /\ ui' = IF AfterSetSensors(ui.via) = "idle" THEN UiIdle
                   ELSE [ui EXCEPT !.pc = AfterSetSensors(ui.via), !.todo = << >>]
          /\ selector' = IF ui.via = "open_dashboard"
                         THEN [selector EXCEPT !.pending = Some(ui.names)]
                         ELSE selector
          /\ ev' = "set_sensors_done"
     ELSE /\ ui' = [ui EXCEPT !.todo = Tail(@)]
          /\ selector' = selector
          /\ ev' = "set_sensors_call"
  /\ UNCHANGED <<selection, selected_channel_map, buffers, session, series, connected,
                 page, net, hist>>
  /\ UNCHANGED <<available_sensors, sensor_last_seen, now, track>>

\* ------------------------------------------- discovery (supervisor, selector_page.py)
\* supervisor_on_message: a message on EQ1/<sensor>/data adds the sensor to
\* available_sensors under sensor_lock; nothing else is recorded.
SupervisorOnMessage(topics) ==
  /\ \E parts \in topics :
       IF Len(parts) >= 3 /\ parts[1] = EQ_PREFIX /\ parts[3] = "data" /\ parts[2] # ""
       THEN /\ available_sensors' = available_sensors \cup {parts[2]}
            /\ track' = [track EXCEPT !.announced[parts[2]] = Some(now)]
            /\ ev' = "announced"
       ELSE /\ UNCHANGED <<available_sensors, track>>
            /\ ev' = "announce_ignored"
  /\ UNCHANGED <<sensor_last_seen, now, selector, measurement>>

\* The values time.time() takes: the seconds that follow a clock that starts at
\* zero, and the seconds that follow a clock set long ago.
Clocks(maxClock) == (0..maxClock) \cup (Epoch..(Epoch + maxClock))

\* Time passes.
Advance(maxClock) ==
  /\ now + 1 \in Clocks(maxClock)
  /\ now' = now + 1
  /\ ev' = "time"
  /\ UNCHANGED <<available_sensors, sensor_last_seen, selector, track, measurement>>

\* sensor_last_seen.get(s, 0.0)
LastSeen(s) == IF s \in DOMAIN sensor_last_seen THEN sensor_last_seen[s] ELSE 0

\* sensor_checklist: alive, for the clock value the pass read
Alive(clock) == {s \in available_sensors : clock - LastSeen(s) <= SENSOR_STALE_S}

\* sensor_checklist: the sensors of available_sensors the pass finds stale
Stale(clock) == available_sensors \ Alive(clock)

\* sensor_checklist, 'now = time.time()': the pass reads the clock before it takes
\* sensor_lock.  caller names the page or the handler that runs the pass.
ReadClock(caller) ==
  ui' = [UiIdle EXCEPT !.pc = "checklist", !.caller = caller, !.clock = now]

\* sensor_checklist, the lock section and the checkboxes built after it: the
\* sensors of available_sensors seen within SENSOR_STALE_S of the clock value read
\* are listed; the others are discarded from available_sensors, from
\* sensor_last_seen and from the selected_sensors of the page that runs the pass.
\* The pass of another client's page leaves this page's selection and list alone.
sensor_checklist ==
  /\ ui.pc = "checklist"
  /\ available_sensors' = Alive(ui.clock)
  /\ sensor_last_seen' = [s \in DOMAIN sensor_last_seen \ Stale(ui.clock) |->
                            sensor_last_seen[s]]
  /\ IF ui.caller = "checklist_elsewhere"
     THEN UNCHANGED <<selector, track>>
     ELSE /\ selector' = [selector EXCEPT
                            !.selected_sensors = @ \ Stale(ui.clock),
                            !.shown = Alive(ui.clock)]
          /\ track' = [track EXCEPT !.returned = Alive(ui.clock),
                                    !.evicted = Stale(ui.clock),
                                    !.clock = ui.clock]
  /\ ui' = UiIdle
  /\ ev' = ui.caller
  /\ UNCHANGED <<selection, selected_channel_map, buffers, session, series, transport,
                 page, net, hist>>
  /\ UNCHANGED now

\* What a step of the selector page that starts a pass leaves alone.
SelectorStepKeeps ==
  /\ UNCHANGED <<selection, selected_channel_map, buffers, session, series, transport,
                 page, net, hist>>
  /\ UNCHANGED <<available_sensors, sensor_last_seen, now, track>>

\* page_index: a new page with an empty selection, which runs sensor_checklist()
PageIndex ==
  /\ ui.pc = "idle"
  /\ selector' = [NoSelector EXCEPT !.open = TRUE]
  /\ ReadClock("page_index")
  /\ ev' = "page_index_load"
  /\ SelectorStepKeeps

\* ui.timer(0.5, sensor_checklist.refresh)
SensorChecklist ==
  /\ ui.pc = "idle"
  /\ selector.open
  /\ selector' = selector
  /\ ReadClock("checklist")
  /\ ev' = "checklist_timer"
  /\ SelectorStepKeeps

\* sensor_checklist run by the selector page of another client, on its load or by
\* its timer: the same pass, on that page's own selected_sensors.
SensorChecklistElsewhere ==
  /\ ui.pc = "idle"
  /\ selector' = selector
  /\ ReadClock("checklist_elsewhere")
  /\ ev' = "checklist_elsewhere_timer"
  /\ SelectorStepKeeps

\* _on_change of a checkbox of the list shown: the name is added to the page's
\* selected_sensors when the box is checked, discarded when it is cleared.
Checkbox ==
  /\ ui.pc = "idle"
  /\ selector.open
  /\ \E name \in selector.shown :
       selector' = [selector EXCEPT !.selected_sensors =
                      IF name \in selector.selected_sensors
                      THEN selector.selected_sensors \ {name}
                      ELSE selector.selected_sensors \cup {name}]
  /\ ev' = "checkbox"
  /\ UNCHANGED <<available_sensors, sensor_last_seen, now, track, measurement>>

\* select_all, the lock section: selected_sensors.update(state.available_sensors)
SelectAll ==
  /\ ui.pc = "idle"
  /\ selector.open
  /\ selector' = [selector EXCEPT !.selected_sensors = @ \cup available_sensors]
  /\ ui' = [UiIdle EXCEPT !.pc = "select_refresh"]
  /\ ev' = "select_all"
  /\ SelectorStepKeeps

\* select_all: sensor_checklist.refresh()
SelectAllRefresh ==
  /\ ui.pc = "select_refresh"
  /\ selector' = selector
  /\ ReadClock("select_all_refresh")
  /\ ev' = "select_all_clock"
  /\ SelectorStepKeeps

\* clear_selection: selected_sensors.clear(), then sensor_checklist.refresh()
ClearSelection ==
  /\ ui.pc = "idle"
  /\ selector.open
  /\ selector' = [selector EXCEPT !.selected_sensors = {}]
  /\ ReadClock("clear_selection")
  /\ ev' = "clear_selection_clock"
  /\ SelectorStepKeeps

\* open_dashboard: without a selection a notice; otherwise
\* set_current_sensors(sorted(selected_sensors)) and then the navigation to
\* /dashboard/<names>.
OpenDashboard ==
  /\ ui.pc = "idle"
  /\ selector.open
  /\ IF selector.selected_sensors = {}
     THEN /\ ev' = "open_rejected"
          /\ UNCHANGED measurement
     ELSE /\ set_current_sensors(sorted(selector.selected_sensors), "open_dashboard")
          /\ ev' = "open_dashboard"
          /\ UNCHANGED page
  /\ UNCHANGED discovery

\* ------------------------------------------------ dashboard page (dashboard_page.py)
\* full_metric_defs: the metrics of the page's sensors the channel map keeps.
FullMetricIds(sensor_names) ==
  Flatten([i \in 1..Len(sensor_names) |->
     FilterSeq([k \in 1..Len(get_metric_ids(sensor_names[i])) |->
                  <<sensor_names[i], get_metric_ids(sensor_names[i])[k]>>],
               {q \in AllQids :
                  \/ q[1] \notin DOMAIN selected_channel_map
                  \/ q[2] \in selected_channel_map[q[1]]})])

\* [s['name'] for s in state.series_data], the options of the series selector
SeriesNames(data) == {data[i].name : i \in 1..Len(data)}

\* page_dashboard after set_current_sensors: without metric definitions the page has
\* no controls; otherwise metric_ids is read from current_metric_ids.  With
\* current_metric_ids empty the page calls ensure_metric_buffers while it holds the
\* data_lock, which is not reentrant.
PageBuild ==
  /\ ui.pc = "page_build"
  /\ LockFree
  /\ IF FullMetricIds(ui.names) = << >>
     THEN /\ page' = NoPage
          /\ ui' = UiIdle
          /\ ev' = "page_without_metrics"
     ELSE IF current_metric_ids # << >>
     THEN /\ page' = [open |-> TRUE, sensor_names |-> ui.names,
                      metric_ids |-> current_metric_ids,
                      series_options |-> SeriesNames(series_data),
                      series_value |-> None]
          /\ ui' = [UiIdle EXCEPT !.pc = "plots", !.caller = "page_dashboard"]
          /\ ev' = "page_built"
     ELSE /\ page' = NoPage
          /\ ui' = [UiIdle EXCEPT !.pc = "blocked"]
          /\ ev' = "page_blocked"
  /\ UNCHANGED <<selection, selected_channel_map, buffers, session, series, transport,
                 net, hist>>
  /\ UNCHANGED discovery

\* configure_time(value, unit): value <= 0 means no limit; minutes are 60 s.
DurationOf(value, unit) ==
  IF value <= 0 THEN None
  ELSE Some(FMul(value, IF unit = "minutos" THEN 6000 ELSE 100))

ConfigureTime(values, units) ==
  /\ ui.pc = "idle"
  /\ page.open
  /\ \E value \in values, unit \in units :
       measurement_duration_s' = DurationOf(value, unit)
  /\ ev' = "configure_time"
  /\ UNCHANGED <<selection, selected_channel_map, buffers, is_measuring,
                 measurement_sample_index, measurement_elapsed_s, series, transport,
                 ui, page, net, hist>>
  /\ UNCHANGED discovery

\* A clear that leaves the sample index and the elapsed time running.
clear_current_measurement_keep_index ==
  /\ buf_t_s' = << >>
  /\ buf_values' = [m \in DOMAIN buf_values |->
                      IF m \in Range(current_metric_ids) THEN << >> ELSE buf_values[m]]
  /\ last_t_s' = None
  /\ last_values' = [m \in DOMAIN last_values \cup Range(current_metric_ids) |->
                       IF m \in Range(current_metric_ids) THEN None ELSE last_values[m]]
  /\ UNCHANGED <<measurement_sample_index, measurement_elapsed_s>>

\* clear_current_measurement(clear_buffers=True), the lock section
clear_current_measurement ==
  /\ buf_t_s' = << >>
  /\ buf_values' = [m \in DOMAIN buf_values |->
                      IF m \in Range(current_metric_ids) THEN << >> ELSE buf_values[m]]
  /\ last_t_s' = None
  /\ last_values' = [m \in DOMAIN last_values \cup Range(current_metric_ids) |->
                       IF m \in Range(current_metric_ids) THEN None ELSE last_values[m]]
  /\ measurement_sample_index' = 0
  /\ measurement_elapsed_s' = 0

\* start_measurement: display_series_index = None; is_measuring = True
StartAssign ==
  /\ page.open
  /\ display_series_index' = None
  /\ is_measuring' = TRUE
  /\ ui' = [UiIdle EXCEPT !.pc = IF page.series_value = None THEN "start_clear"
                                  ELSE "start_select"]
  /\ ev' = "start"
  /\ hist' = [hist EXCEPT !.clean = FALSE, !.session = FALSE]
  /\ UNCHANGED page

\* start_measurement: series_selector.value = None changes the value of a selector
\* that shows a series.  The element is NiceGUI's, not the repository's: NiceGUI
\* runs the on_change handler of an element whenever its value changes, so
\* display_series(None) runs at once (is_measuring = False; display_series_index =
\* None); under a toolkit that reports only the changes the user makes, the
\* assignment changes the selector alone.
StartSelect ==
  /\ \E dispatched \in BOOLEAN :
       /\ is_measuring' = (is_measuring /\ ~dispatched)
       /\ ev' = IF dispatched THEN "start_undone" ELSE "start_selector"
  /\ display_series_index' = None
  /\ page' = [page EXCEPT !.series_value = None]
  /\ ui' = [ui EXCEPT !.pc = "start_clear"]
  /\ UNCHANGED hist

\* start_measurement up to its clear_current_measurement call: the assignments,
\* and then the selector when it shows a series.  None of it holds the lock.
StartMeasurement ==
  /\ ui.pc \in {"idle", "start_select"}
  /\ IF ui.pc = "idle" THEN StartAssign ELSE StartSelect
  /\ UNCHANGED <<selection, selected_channel_map, buffers, measurement_duration_s,
                 measurement_sample_index, measurement_elapsed_s, series_data,
                 series_counter, transport, net>>
  /\ UNCHANGED discovery

\* start_measurement: clear_current_measurement(clear_buffers=True)
StartClear ==
  /\ ui.pc = "start_clear"
  /\ LockFree
  /\ clear_current_measurement
  /\ hist' = [HistCleared EXCEPT !.clean = is_measuring, !.session = is_measuring]
  /\ ui' = UiIdle
  /\ ev' = "started"
  /\ UNCHANGED <<selection, selected_channel_map, last_avg_dropped, current_metric_ids,
                 measurement_duration_s, is_measuring, series, transport, page, net>>
  /\ UNCHANGED discovery

\* stop_measurement
StopMeasurement ==
  /\ ui.pc = "idle"
  /\ page.open
  /\ is_measuring' = FALSE
  /\ ev' = IF is_measuring THEN "stopped" ELSE "stop_ignored"
  /\ UNCHANGED <<selection, selected_channel_map, buffers, measurement_duration_s,
                 measurement_sample_index, measurement_elapsed_s, series, transport,
                 ui, page, net, hist>>
  /\ UNCHANGED discovery

\* A save that leaves the session running while it copies.
SaveSeries_running(maxSeries) ==
  /\ ui.pc = "idle"
  /\ page.open
  /\ Len(series_data) < maxSeries \/ buf_t_s = << >>
  /\ ui' = [UiIdle EXCEPT !.pc = "save_copy"]
  /\ ev' = "save"
  /\ UNCHANGED <<selection, selected_channel_map, buffers, session, series, transport,
                 page, net, hist>>
  /\ UNCHANGED discovery

\* save_series: state.is_measuring = False, before the lock is taken
SaveSeries(maxSeries) ==
  /\ ui.pc = "idle"
  /\ page.open
  /\ Len(series_data) < maxSeries \/ buf_t_s = << >>
  /\ is_measuring' = FALSE
  /\ ui' = [UiIdle EXCEPT !.pc = "save_copy"]
  /\ ev' = "save"
  /\ UNCHANGED <<selection, selected_channel_map, buffers, measurement_duration_s,
                 measurement_sample_index, measurement_elapsed_s, series, transport,
                 page, net, hist>>
  /\ UNCHANGED discovery

\* save_series, the lock section: x = list(buf_t_s) and values_copy, a copy of
\* the buffer of every metric of the page (empty for a metric without buffer).
BufferCopy(metric_ids) ==
  [t_s |-> buf_t_s,
   values |-> [mid \in Range(metric_ids) |->
                 IF mid \in DOMAIN buf_values THEN buf_values[mid] ELSE << >>]]

\* The series record save_series builds from the copies taken under the lock.
Snapshot(number, copy, metric_ids) ==
  [name |-> number, t_s |-> copy.t_s, values |-> copy.values,
   metric_ids |-> metric_ids]

\* A check that finds every recording non-empty.
EmptyRecording_never(x) == FALSE

\* save_series: if not x
EmptyRecording(x) == x = << >>

\* save_series: the buffers are copied under the lock.
SaveCopy ==
  /\ ui.pc = "save_copy"
  /\ LockFree
  /\ ui' = [ui EXCEPT !.pc = "save_append", !.copy = BufferCopy(page.metric_ids)]
  /\ ev' = "save_copied"
  /\ UNCHANGED <<selection, selected_channel_map, buffers, session, series, transport,
                 page, net, hist>>
  /\ UNCHANGED discovery

\* save_series after the lock section: an empty copy ends the handler ('No hay
\* datos para guardar'), otherwise the series is numbered and appended and the
\* view returns to the live data, all without the lock.
SaveAppend ==
  /\ ui.pc = "save_append"
  /\ IF EmptyRecording(ui.copy.t_s)
     THEN /\ ui' = UiIdle
          /\ ev' = "save_rejected"
          /\ UNCHANGED <<series, page>>
     ELSE /\ series_counter' = series_counter + 1
          /\ series_data' = Append(series_data,
                                   Snapshot(series_counter + 1, ui.copy, page.metric_ids))
          /\ display_series_index' = None
          /\ page' = [page EXCEPT !.series_options = SeriesNames(series_data')]
          /\ ui' = [UiIdle EXCEPT !.pc = "save_clear"]
          /\ ev' = "save_appended"
  /\ UNCHANGED <<selection, selected_channel_map, buffers, session, transport,
                 net, hist>>
  /\ UNCHANGED discovery

\* A save whose record shares the time buffer: the clear empties the record too.
SaveClear_shared ==
  /\ ui.pc = "save_clear"
  /\ LockFree
  /\ clear_current_measurement
  /\ series_data' = [series_data EXCEPT ![Len(series_data)].t_s = << >>]
  /\ hist' = HistCleared
  /\ ui' = UiIdle
  /\ ev' = "saved"
  /\ UNCHANGED <<selection, selected_channel_map, last_avg_dropped, current_metric_ids,
                 measurement_duration_s, is_measuring, series_counter,
                 display_series_index, transport, page, net>>
  /\ UNCHANGED discovery

\* save_series: clear_current_measurement(clear_buffers=True)
SaveClear ==
  /\ ui.pc = "save_clear"
  /\ LockFree
  /\ clear_current_measurement
  /\ hist' = HistCleared
  /\ ui' = UiIdle
  /\ ev' = "saved"
  /\ UNCHANGED <<selection, selected_channel_map, last_avg_dropped, current_metric_ids,
                 measurement_duration_s, is_measuring, series, transport, page, net>>
  /\ UNCHANGED discovery

\* A clear_all that keeps the series counter.
ClearAll_keep_counter ==
  /\ ui.pc = "idle"
  /\ page.open
  /\ is_measuring' = FALSE
  /\ series_data' = << >>
  /\ series_counter' = series_counter
  /\ display_series_index' = None
  /\ ui' = [UiIdle EXCEPT !.pc = "clear_clear"]
  /\ ev' = "clear_all"
  /\ hist' = [hist EXCEPT !.wiped = Len(series_data)]
  /\ page' = [page EXCEPT !.series_options = {}, !.series_value = None]
  /\ UNCHANGED <<selection, selected_channel_map, buffers, measurement_duration_s,
                 measurement_sample_index, measurement_elapsed_s, transport, net>>
  /\ UNCHANGED discovery

\* A clear_all that also forgets the announced sensors.
ClearAll_forget_sensors ==
  /\ ui.pc = "idle"
  /\ page.open
  /\ is_measuring' = FALSE
  /\ series_data' = << >>
  /\ series_counter' = 0
  /\ display_series_index' = None
  /\ ui' = [UiIdle EXCEPT !.pc = "clear_clear"]
  /\ ev' = "clear_all"
  /\ hist' = [hist EXCEPT !.wiped = Len(series_data)]
  /\ available_sensors' = {}
  /\ page' = [page EXCEPT !.series_options = {}, !.series_value = None]
  /\ UNCHANGED <<selection, selected_channel_map, buffers, measurement_duration_s,
                 measurement_sample_index, measurement_elapsed_s, transport, net>>
  /\ UNCHANGED <<sensor_last_seen, now, selector, track>>

\* clear_all: the unlocked assignments
ClearAll ==
  /\ ui.pc = "idle"
  /\ page.open
  /\ is_measuring' = FALSE
  /\ series_data' = << >>
  /\ series_counter' = 0
  /\ display_series_index' = None
  /\ ui' = [UiIdle EXCEPT !.pc = "clear_clear"]
  /\ ev' = "clear_all"
  /\ hist' = [hist EXCEPT !.wiped = Len(series_data)]
  /\ page' = [page EXCEPT !.series_options = {}, !.series_value = None]
  /\ UNCHANGED <<selection, selected_channel_map, buffers, measurement_duration_s,
                 measurement_sample_index, measurement_elapsed_s, transport, net>>
  /\ UNCHANGED discovery

\* clear_all pressed on the dashboard another client has open: the store changes
\* alike, while the selector of this client's page keeps its options and its value
\* (the closure variable series_selector is the one of the page of the handler).
ClearAllElsewhere ==
  /\ ui.pc = "idle"
  /\ page.open
  /\ is_measuring' = FALSE
  /\ series_data' = << >>
  /\ series_counter' = 0
  /\ display_series_index' = None
  /\ ui' = [UiIdle EXCEPT !.pc = "clear_clear"]
  /\ ev' = "clear_all"
  /\ hist' = [hist EXCEPT !.wiped = Len(series_data)]
  /\ UNCHANGED <<selection, selected_channel_map, buffers, measurement_duration_s,
                 measurement_sample_index, measurement_elapsed_s, transport, page, net>>
  /\ UNCHANGED discovery

\* clear_all: clear_current_measurement(clear_buffers=True)
ClearAllClear ==
  /\ ui.pc = "clear_clear"
  /\ LockFree
  /\ clear_current_measurement
  /\ hist' = [HistCleared EXCEPT !.wiped = 0]
  /\ ui' = UiIdle
  /\ ev' = "cleared"
  /\ UNCHANGED <<selection, selected_channel_map, last_avg_dropped, current_metric_ids,
                 measurement_duration_s, is_measuring, series, transport, page, net>>
  /\ UNCHANGED discovery

\* A resolution that counts the series from 1.
SeriesIndex_from_one(value) ==
  IF \E i \in 1..Len(series_data) : series_data[i].name = value
  THEN Some(CHOOSE i \in 1..Len(series_data) :
              /\ series_data[i].name = value
              /\ \A k \in 1..(i - 1) : series_data[k].name # value)
  ELSE None

\* The index display_series resolves a name to: the first series of that name.
SeriesIndex(value) ==
  IF \E i \in 1..Len(series_data) : series_data[i].name = value
  THEN Some((CHOOSE i \in 1..Len(series_data) :
               /\ series_data[i].name = value
               /\ \A k \in 1..(i - 1) : series_data[k].name # value) - 1)
  ELSE None

\* display_series(event) for one event.value, the selector's new value: None,
\* or a series name
display_series(value) ==
  /\ ui.pc = "idle"
  /\ page.open
  /\ page' = [page EXCEPT !.series_value = value]
  /\ is_measuring' = FALSE
  /\ display_series_index' = IF value = None THEN None ELSE SeriesIndex(value[1])
  /\ ev' = IF is_measuring THEN "display_stopped" ELSE "display_series"
  /\ UNCHANGED <<selection, selected_channel_map, buffers, measurement_duration_s,
                 measurement_sample_index, measurement_elapsed_s, series_data,
                 series_counter, transport, ui, net, hist>>
  /\ UNCHANGED discovery

\* What the selector can send: no value (it is clearable), or one of its options.
DisplayValues(options) == {None} \cup {Some(n) : n \in options}

\* The selector's on_change: it fires when the value changes
DisplaySeries ==
  \E value \in DisplayValues(page.series_options) \ {page.series_value} :
     display_series(value)

\* update_plots, called by the page timer, by page_dashboard and by
\* apply_channel_selection: when measuring with a limit, the elapsed time is read
\* under the lock; otherwise the tick only renders.
UpdatePlots ==
  /\ \/ ui.pc = "idle" /\ page.open
     \/ ui.pc = "plots"
  /\ LockFree
  /\ IF is_measuring /\ measurement_duration_s # None
     THEN /\ ui' = [UiIdle EXCEPT !.pc = "plots_check", !.elapsed = measurement_elapsed_s,
                                  !.caller = IF ui.pc = "idle" THEN "timer" ELSE ui.caller]
          /\ ev' = "tick_read"
     ELSE /\ ui' = UiIdle
          /\ ev' = "tick"
  /\ UNCHANGED <<selection, selected_channel_map, buffers, session, series, transport,
                 page, net, hist>>
  /\ UNCHANGED discovery

\* A read tick that never stops the session.
UpdatePlotsCheck_never ==
  /\ ui.pc = "plots_check"
  /\ ev' = "tick"
  /\ ui' = UiIdle
  /\ UNCHANGED <<selection, selected_channel_map, buffers, session, series, transport,
                 page, net, hist>>
  /\ UNCHANGED discovery

\* A read tick that stops the session whatever the elapsed time.
UpdatePlotsCheck_always ==
  /\ ui.pc = "plots_check"
  /\ is_measuring' = FALSE
  /\ ev' = "tick_stopped"
  /\ ui' = UiIdle
  /\ UNCHANGED <<selection, selected_channel_map, buffers, measurement_duration_s,
                 measurement_sample_index, measurement_elapsed_s, series, transport,
                 page, net, hist>>
  /\ UNCHANGED discovery

\* update_plots: if elapsed >= state.measurement_duration_s: stop_measurement()
UpdatePlotsCheck ==
  /\ ui.pc = "plots_check"
  /\ IF ui.elapsed >= measurement_duration_s[1]
     THEN /\ is_measuring' = FALSE
          /\ ev' = "tick_stopped"
     ELSE /\ is_measuring' = is_measuring
          /\ ev' = "tick"
  /\ ui' = UiIdle
  /\ UNCHANGED <<selection, selected_channel_map, buffers, measurement_duration_s,
                 measurement_sample_index, measurement_elapsed_s, series, transport,
                 page, net, hist>>
  /\ UNCHANGED discovery

\* channel_checks: one checkbox per metric of the page's sensors
ChannelKeys(sensor_names) ==
  {q \in AllQids : Contains(sensor_names, q[1])}

\* new_map: sensor -> the checked metric ids (a sensor with none has no entry)
NewMap(checked) ==
  [s \in {q[1] : q \in checked} |-> {q[2] : q \in {r \in checked : r[1] = s}}]

\* The orders in which 'for mid in mids' can walk a set of ids: the order of a
\* Python set of str depends on the hash seed of the process.
SetOrders(mids) ==
  {p \in [1..Cardinality(mids) -> mids] :
     \A i, k \in 1..Cardinality(mids) : p[i] = p[k] => i = k}

\* The lists 'for sname, mids in new_map.items(): for mid in mids' can build: the
\* sensors in the order of new_map's keys, each with its ids in a set order.
RECURSIVE WalkMap(_, _)
WalkMap(keys, new_map) ==
  IF keys = << >> THEN {<< >>}
  ELSE {[k \in 1..Len(p) |-> <<Head(keys), p[k]>>] \o rest :
          p \in SetOrders(new_map[Head(keys)]), rest \in WalkMap(Tail(keys), new_map)}

\* new_metric_ids: the lists the walk over new_map can give.  The keys of
\* new_map are in the order of the page's checkboxes, the order of the page's list.
NewMetricIds(sensor_names, checked) ==
  WalkMap(FilterSeq(Dedup(sensor_names, {}), DOMAIN NewMap(checked)), NewMap(checked))

\* A validation that lets every selection through.
ValidSelection_any(sensor_names, new_map) == TRUE

\* apply_channel_selection validates: every sensor of the page keeps a channel.
ValidSelection(sensor_names, new_map) ==
  \A i \in 1..Len(sensor_names) :
     sensor_names[i] \in DOMAIN new_map /\ new_map[sensor_names[i]] # {}

\* apply_channel_selection: an invalid selection is refused ('Debes seleccionar al
\* menos un canal'); a valid one replaces selected_channel_map under the lock.
ApplyChannelSelection(choices) ==
  /\ ui.pc = "idle"
  /\ page.open
  /\ LockFree
  /\ \E checked \in {c \cap ChannelKeys(page.sensor_names) : c \in choices} :
       IF ~ValidSelection(page.sensor_names, NewMap(checked))
       THEN /\ ev' = "apply_rejected"
            /\ UNCHANGED <<selected_channel_map, ui, hist>>
       ELSE /\ selected_channel_map' = NewMap(checked)
            /\ \E new_metric_ids \in NewMetricIds(page.sensor_names, checked) :
                 ui' = [UiIdle EXCEPT !.pc = "apply_ensure", !.ids = new_metric_ids]
            /\ hist' = [hist EXCEPT !.clean = FALSE]
            /\ ev' = "apply"
  /\ UNCHANGED <<selection, buffers, session, series, transport, page, net>>
  /\ UNCHANGED discovery

\* apply_channel_selection: ensure_metric_buffers(new_metric_ids), one section of
\* the lock
ApplyEnsure ==
  /\ ui.pc = "apply_ensure"
  /\ LockFree
  /\ ensure_metric_buffers(ui.ids)
  /\ hist' = HistEnsured(ui.ids)
  /\ ui' = [ui EXCEPT !.pc = "apply_install"]
  /\ ev' = "applied"
  /\ UNCHANGED <<selection, selected_channel_map, buf_t_s, last_t_s, last_avg_dropped,
                 session, series, transport, page, net>>
  /\ UNCHANGED discovery

\* apply_channel_selection: metric_ids[:] = list(new_metric_ids) and the
\* visibility of the plots, outside the lock; update_plots() follows.
ApplyInstall ==
  /\ ui.pc = "apply_install"
  /\ page' = [page EXCEPT !.metric_ids = ui.ids]
  /\ ui' = [UiIdle EXCEPT !.pc = "plots", !.caller = "apply_channel_selection"]
  /\ ev' = "applied_ids"
  /\ UNCHANGED <<selection, selected_channel_map, buffers, session, series, transport,
                 net, hist>>
  /\ UNCHANGED discovery

\* ------------------------------------------------------------------ inputs
Obj(fields) == [kind |-> "object", fields |-> fields]
Msg(sensor_name, payload) == [topic |-> TopicOf(sensor_name), payload |-> payload]

\* {"t_ms": 1000, "cm": 250, "v_cm_s": 10, "a_cm_s2": 0}
PayloadMov == Obj([t_ms |-> <<"int", 1000>>, cm |-> <<"int", 250>>,
                   v_cm_s |-> <<"int", 10>>, a_cm_s2 |-> <<"int", 0>>])
\* {"t_ms": 1250.0, "cm": null, "v_cm_s": "fast", "a_cm_s2": 7}
PayloadMovHoles == Obj([t_ms |-> <<"float", 125000>>, cm |-> <<"null", 0>>,
                        v_cm_s |-> <<"bad", 0>>, a_cm_s2 |-> <<"int", 7>>])
\* {"t_ms": 1000, "cm": 250, "v_cm_s": 10}: a required key is missing
PayloadMovShort == Obj([t_ms |-> <<"int", 1000>>, cm |-> <<"int", 250>>,
                        v_cm_s |-> <<"int", 10>>])
\* {"t_ms": 1000, "Lux": 3}
PayloadLux == Obj([t_ms |-> <<"int", 1000>>, Lux |-> <<"int", 3>>])
\* {"t_ms": "soon", "Lux": 3}
PayloadLuxNoTime == Obj([t_ms |-> <<"bad", 0>>, Lux |-> <<"int", 3>>])
\* {"t_ms": 1000, "avg_dropped": 2}
PayloadX == Obj([t_ms |-> <<"int", 1000>>, avg_dropped |-> <<"int", 2>>])
\* {"t_ms": 1000.5, "Lux": 3}
PayloadLuxHalf == Obj([t_ms |-> <<"float", 100050>>, Lux |-> <<"int", 3>>])
\* {"Lux": 3}: no t_ms
PayloadLuxBare == Obj([Lux |-> <<"int", 3>>])
\* text that json.loads rejects
PayloadGarbage == [kind |-> "garbage", fields |-> << >>]
\* [1, 2]: JSON, but not an object
PayloadArray == [kind |-> "array", fields |-> << >>]
\* null
PayloadNull == [kind |-> "null", fields |-> << >>]

Messages ==
  {Msg("SensorMov", PayloadMov), Msg("SensorMov", PayloadMovShort),
   Msg("SensorLux", PayloadLux)}

\* What a broker can deliver on the topics of SensorMov and SensorLux.
IngestMessages ==
  {Msg("SensorLux", PayloadLux), Msg("SensorLux", PayloadLuxHalf),
   Msg("SensorLux", PayloadLuxNoTime), Msg("SensorLux", PayloadLuxBare),
   Msg("SensorLux", PayloadGarbage), Msg("SensorLux", PayloadArray),
   Msg("SensorLux", PayloadNull), Msg("SensorMov", PayloadMov),
   Msg("SensorMov", PayloadMovShort)}

SensorLists == SeqsUpTo(Sensors, MaxListLen)
\* What the operator leaves checked in the channel dialog: everything, the first
\* metric of SensorMov only, no metric of SensorMov.
ChannelChoices ==
  {AllQids, AllQids \ {<<"SensorMov", "vel_m_s">>, <<"SensorMov", "acc_m_s2">>},
   {<<"SensorLux", "Lux">>}}
DurationValues == {25}
DurationUnits == {"segundos", "minutos"}

\* ------------------------------------------------------------ specifications
\* The MQTT network loop: connection and message callbacks.
NetStep(msgs, maxTicks) ==
  \/ OnConnect
  \/ OnConnectSubscribe
  \/ OnMessageRecv(msgs)
  \/ OnMessageWrite(maxTicks)

\* Loading the dashboard page for one of the lists.
PageStep(lists) ==
  \/ PageDashboard(lists)
  \/ SetSensorsReset
  \/ SetSensorsEnsure
  \/ SetSensorsInstall
  \/ SetSensorsDiff
  \/ PageBuild

\* Recording: start, stop, duration limit and the read tick.
SessionStep(values, units) ==
  \/ ConfigureTime(values, units)
  \/ StartMeasurement
  \/ StartClear
  \/ StopMeasurement
  \/ UpdatePlots
  \/ UpdatePlotsCheck

\* The channel dialog.
ChannelStep(choices) ==
  \/ ApplyChannelSelection(choices)
  \/ ApplyEnsure
  \/ ApplyInstall

\* The Snapshot Store.
StoreStep(maxSeries) ==
  \/ SaveSeries(maxSeries)
  \/ SaveCopy
  \/ SaveAppend
  \/ SaveClear
  \/ ClearAll
  \/ ClearAllClear
  \/ DisplaySeries

\* Recording with channel changes on a page of two sensors; the two threads
\* interleave at every step.
Next ==
  \/ NetStep(Messages, MaxTicks)
  \/ PageStep({<<"SensorMov", "SensorLux">>})
  \/ SessionStep(DurationValues, {"segundos"})
  \/ ChannelStep(ChannelChoices)

Spec == Init /\ [][Next]_vars

\* The Snapshot Store beside a recording, on pages of two sensor sets and without
\* channel changes, with a second client that clears the store; the two threads
\* interleave at every step.
NextStore ==
  \/ NetStep({Msg("SensorLux", PayloadLux), Msg("SensorLux", PayloadGarbage)}, MaxTicks)
  \/ PageStep({<<"SensorMov", "SensorLux">>, <<"SensorLux">>})
  \/ StartMeasurement
  \/ StartClear
  \/ StopMeasurement
  \/ UpdatePlots
  \/ StoreStep(MaxSeries)
  \/ ClearAllElsewhere

SpecStore == Init /\ [][NextStore]_vars

\* Page loads with every list of SensorLists, with recordings in between; the two
\* threads interleave at every step.
NextSelect ==
  \/ NetStep({Msg("SensorMov", PayloadMovHoles), Msg("SensorLux", PayloadLux),
              Msg("SensorX", PayloadX)}, MaxTicks)
  \/ PageStep(SensorLists \cup {<<"">>})
  \/ StartMeasurement
  \/ StartClear
  \/ StopMeasurement
  \/ UpdatePlots

SpecSelect == Init /\ [][NextSelect]_vars

\* Page loads with every list of SensorLists and samples of one sensor, with
\* recordings in between; the two threads interleave at every step.
NextLock ==
  \/ NetStep({Msg("SensorLux", PayloadLux)}, MaxTicks)
  \/ PageStep(SensorLists \cup {<<"">>})
  \/ StartMeasurement
  \/ StartClear
  \/ StopMeasurement
  \/ UpdatePlots

\* The scheduling of the code: a handler or callback that was entered runs to its
\* end (its remaining steps are straight-line code), and the refresh timer keeps
\* firing.
FairLock ==
  /\ WF_vars(SetSensorsReset)
  /\ WF_vars(SetSensorsEnsure)
  /\ WF_vars(SetSensorsInstall)
  /\ WF_vars(SetSensorsDiff)
  /\ WF_vars(PageBuild)
  /\ WF_vars(StartClear)
  /\ WF_vars(UpdatePlots)
  /\ WF_vars(OnConnectSubscribe)
  /\ WF_vars(OnMessageWrite(MaxTicks))

SpecLock == Init /\ [][NextLock]_vars /\ FairLock

\* Well-formed and malformed messages on a page of SensorLux and on a page of
\* SensorMov and SensorLux, with recordings.
NextIngest ==
  \/ NetStep(IngestMessages, MaxTicks)
  \/ PageStep({<<"SensorLux">>, <<"SensorMov", "SensorLux">>})
  \/ StartMeasurement
  \/ StartClear
  \/ StopMeasurement
  \/ UpdatePlots

SpecIngest == Init /\ [][NextIngest]_vars

\* Every operation of the dashboard on a page of one sensor with one metric.
NextSession ==
  \/ NetStep({Msg("SensorLux", PayloadLux)}, MaxTicks)
  \/ PageStep({<<"SensorLux">>, <<"SensorX">>})
  \/ SessionStep(DurationValues, DurationUnits)
  \/ ChannelStep({AllQids, {}})
  \/ StoreStep(MaxSeries)

SpecSession == Init /\ [][NextSession]_vars

\* One sensor recorded past the capacity of the buffers.
NextRing ==
  \/ NetStep({Msg("SensorLux", PayloadLux)}, MAX_POINTS + RingExtra)
  \/ PageStep({<<"SensorLux">>})
  \/ UpdatePlots
  \/ StartMeasurement
  \/ StartClear

SpecRing == Init /\ [][NextRing]_vars

\* What the supervisor client receives on EQ1/#.
SupervisorTopics ==
  {TopicOf("SensorLux"), <<EQ_PREFIX, "SensorLux", "status">>}

\* Discovery beside dashboards of the announced sensors.
NextDiscovery ==
  \/ SupervisorOnMessage(SupervisorTopics)
  \/ Advance(MaxClock)
  \/ PageIndex
  \/ SensorChecklist
  \/ SensorChecklistElsewhere
  \/ sensor_checklist
  \/ Checkbox
  \/ SelectAll
  \/ SelectAllRefresh
  \/ ClearSelection
  \/ OpenDashboard
  \/ PageStep({<<"SensorLux">>, <<"SensorMov", "SensorLux">>})
  \/ UpdatePlots

SpecDiscovery == InitDiscovery /\ [][NextDiscovery]_vars

\* set_current_sensor called beside an open dashboard of SensorLux.
NextEntry ==
  \/ NetStep({Msg("SensorLux", PayloadLux), Msg("SensorMov", PayloadMov)}, MaxTicks)
  \/ \E sensor \in Sensors \cup {""} : set_current_sensor(sensor)
  \/ PageStep({<<"SensorLux">>})
  \/ StartMeasurement
  \/ StartClear
  \/ UpdatePlots

SpecEntry == Init /\ [][NextEntry]_vars

\* The Snapshot Store on a page of two sensors with a channel restriction, while
\* the supervisor client announces a sensor; the threads interleave at every step.
NextClear ==
  \/ SupervisorOnMessage({TopicOf("SensorLux")})
  \/ NetStep({Msg("SensorLux", PayloadLux)}, MaxTicks)
  \/ PageStep({<<"SensorMov", "SensorLux">>})
  \/ ChannelStep({AllQids \ {<<"SensorMov", "vel_m_s">>, <<"SensorMov", "acc_m_s2">>}})
  \/ StartMeasurement
  \/ StartClear
  \/ UpdatePlots
  \/ StoreStep(MaxSeries)

SpecClear == Init /\ [][NextClear]_vars

\* A recording of one sensor with a limit of 2.0 s and the periodic read tick.
NextAuto ==
  \/ NetStep({Msg("SensorLux", PayloadLux), Msg("SensorLux", PayloadLuxNoTime)}, AutoTicks)
  \/ PageStep({<<"SensorLux">>})
  \/ SessionStep({200}, DurationUnits)

SpecAuto == Init /\ [][NextAuto]_vars

\* The scheduling the auto-stop relies on: the page timer keeps calling update_plots
\* (ui.timer(state.REFRESH_S, update_plots)) and a handler that was entered runs to
\* its end; the network loop connects, finishes each callback it entered, and
\* well-formed samples of the selected sensor keep arriving.
FairAuto ==
  /\ WF_vars(UpdatePlots)
  /\ WF_vars(UpdatePlotsCheck)
  /\ WF_vars(StartClear)
  /\ WF_vars(SetSensorsReset)
  /\ WF_vars(SetSensorsEnsure)
  /\ WF_vars(SetSensorsInstall)
  /\ WF_vars(SetSensorsDiff)
  /\ WF_vars(PageBuild)
  /\ WF_vars(OnConnect)
  /\ WF_vars(OnConnectSubscribe)
  /\ WF_vars(OnMessageWrite(AutoTicks))
  /\ SF_vars(OnMessageRecv({Msg("SensorLux", PayloadLux)}))

SpecAutoFair == SpecAuto /\ FairAuto

\* ------------------------------------------------------------ properties
\* A step of the network loop that ends the second lock section of
\* mqtt_on_message while the session is Running: one tick.
TickStep == net.pc = "write" /\ net'.pc = "idle" /\ is_measuring

Last(q) == q[Len(q)]

\* C1: after start(), while the session is Running and no selection or channel
\* change happened since, the time buffer and the value buffer of every metric of
\* current_metric_ids have the same length.
C1_EqualLength ==
  (hist.clean /\ is_measuring) =>
     \A i \in 1..Len(current_metric_ids) :
        /\ current_metric_ids[i] \in DOMAIN buf_values
        /\ Len(buf_values[current_metric_ids[i]]) = Len(buf_t_s)

\* Two ticks of a clean Running session on a page of two sensors.
C1_Witness ==
  /\ hist.clean /\ is_measuring
  /\ Len(buf_t_s) = 2
  /\ Len(current_metric_ids) > 1
  /\ ev = "message_tick"

\* The value B's metric m should get at a tick of another sensor, from the
\* history of the session.
ForwardFilled(m) ==
  (m[1] # net.sensor /\ Contains(selected_sensors, m[1]))
     => Last(buf_values'[m]) = (IF hist.last[m] = None THEN None ELSE hist.last[m][1])

\* C2 as stated: at every tick of a Running session made by a sample of a sensor A,
\* the value appended for a metric of another selected sensor B is the value B
\* produced at its latest tick of the session, or None if B had none.
C2_ForwardFillAlways ==
  [][(TickStep /\ hist.session) =>
       \A i \in 1..Len(current_metric_ids) : ForwardFilled(current_metric_ids[i])]_vars

\* A step of the apply_channel_selection handler: the map, the buffers, or the
\* update_plots() call that ends it.
ApplyStep ==
  \/ ui.pc = "idle" /\ ui'.pc = "apply_ensure"
  \/ ui.pc = "apply_ensure" /\ ui'.pc = "apply_install"
  \/ ui.pc = "apply_install" /\ ui'.pc = "plots"
  \/ /\ ui.pc \in {"plots", "plots_check"}
     /\ ui.caller = "apply_channel_selection"
     /\ ui' # ui

\* What a channel change keeps: the counters, the time buffer and, for every
\* metric active before and after, its value buffer and its last value.
ApplyFrame ==
  /\ UNCHANGED <<measurement_sample_index, measurement_elapsed_s, buf_t_s>>
  /\ \A m \in Range(current_metric_ids) \cap Range(current_metric_ids') :
        /\ m \in DOMAIN buf_values' /\ m \in DOMAIN last_values'
        /\ buf_values'[m] = buf_values[m]
        /\ last_values'[m] = last_values[m]
  /\ DOMAIN buf_values' \subseteq DOMAIN buf_values \cup Range(current_metric_ids')

\* The polled auto-stop: Running with a limit that the elapsed time read has reached.
AutoStops ==
  /\ ui.pc = "plots_check"
  /\ is_measuring
  /\ measurement_duration_s # None
  /\ ui.elapsed >= measurement_duration_s[1]

\* C6 as stated: a channel-only change leaves the session state, sampleIndex,
\* elapsedSeconds, the time buffer and the buffer and last value of every metric
\* active before and after unchanged.
C6_ChannelChangeKeepsSession ==
  [][ApplyStep => (ApplyFrame /\ UNCHANGED is_measuring)]_vars

\* C6 with the read tick of the handler taken into account: a channel-only change
\* leaves sampleIndex, elapsedSeconds, the time buffer and the buffer and last value
\* of every metric active before and after unchanged, and changes the session state
\* only by the auto-stop of its closing update_plots() (Running to Stopped when the
\* elapsed time has reached the limit).
C6_ChannelChangeFrame ==
  [][ApplyStep =>
       /\ ApplyFrame
       /\ IF AutoStops THEN ~is_measuring' ELSE UNCHANGED is_measuring]_vars

\* A channel change on a Running session with data removed metrics and kept the
\* distance buffer.
C6_Witness ==
  /\ ev = "applied"
  /\ is_measuring
  /\ Len(buf_t_s) = 2
  /\ Len(current_metric_ids) = 2
  /\ <<"SensorMov", "dist_m">> \in DOMAIN buf_values
  /\ Len(buf_values[<<"SensorMov", "dist_m">>]) = 2
  /\ <<"SensorMov", "vel_m_s">> \notin DOMAIN buf_values

\* float(raw) x scale of the metric's source field, or None.
Converted(m, j) ==
  LET ms == SENSOR_TYPES[sensor_type(m[1])].metrics
      mi == CHOOSE i \in 1..Len(ms) : ms[i].id = m[2]
      key == ms[mi].json_key
  IN  IF key \in DOMAIN j /\ j[key][1] \in {"int", "float"}
      THEN Some(((IF j[key][1] = "int" THEN 100 * j[key][2] ELSE j[key][2]) * ms[mi].scale)
                  \div 100)
      ELSE None

\* C8: a tick appends index x sample period to the time buffer and, for every
\* metric of current_metric_ids that belongs to the sample's sensor,
\* float(raw) x scale, or None when the field is missing or not a number.
C8_SampleConversion ==
  [][TickStep =>
       /\ Last(buf_t_s') = measurement_sample_index * SAMPLE_PERIOD_S
       /\ \A i \in 1..Len(current_metric_ids) :
             LET m == current_metric_ids[i]
             IN  m[1] = net.sensor /\ sensor_type(m[1]) \in DOMAIN SENSOR_TYPES
                   => Last(buf_values'[m]) = Converted(m, net.payload)]_vars

\* C9: apply_channel_selection goes on only with a selection that leaves every
\* sensor of the page a channel, and a refused selection leaves
\* selected_channel_map, current_metric_ids and the buffer keys as they were.
C9_InvalidSelectionRejected ==
  /\ [](ev = "apply" =>
          \A i \in 1..Len(page.sensor_names) :
             /\ page.sensor_names[i] \in DOMAIN selected_channel_map
             /\ selected_channel_map[page.sensor_names[i]] # {})
  /\ [][ev' = "apply_rejected" =>
          /\ UNCHANGED <<selected_channel_map, current_metric_ids>>
          /\ DOMAIN buf_values' = DOMAIN buf_values]_vars

\* A selection without any channel of SensorMov was refused while a restriction
\* was in force.
C9_Witness ==
  /\ ev = "apply_rejected"
  /\ "SensorMov" \in DOMAIN selected_channel_map
  /\ Len(current_metric_ids) = 2

\* The last n entries of a history, in order.
LastN(h, n) == IF Len(h) <= n THEN h ELSE SubSeq(h, Len(h) - n + 1, Len(h))

\* C3: the time buffer and every value buffer hold the last MAX_POINTS entries
\* appended since they were cleared, in append order, and are never longer than
\* MAX_POINTS.
C3_RingBuffer ==
  /\ Len(buf_t_s) <= MAX_POINTS
  /\ buf_t_s = LastN(hist.t, MAX_POINTS)
  /\ \A m \in DOMAIN buf_values :
        /\ Len(buf_values[m]) <= MAX_POINTS
        /\ m \in DOMAIN hist.v
        /\ buf_values[m] = LastN(hist.v[m], MAX_POINTS)

\* Two appends past the capacity: the buffers are full and start at the third tick.
C3_Witness ==
  /\ Len(hist.t) = MAX_POINTS + 2
  /\ Len(buf_t_s) = MAX_POINTS
  /\ buf_t_s[1] = 2 * SAMPLE_PERIOD_S
  /\ buf_t_s[MAX_POINTS] = (MAX_POINTS + 1) * SAMPLE_PERIOD_S
  /\ Len(buf_values[<<"SensorLux", "Lux">>]) = MAX_POINTS

\* C4: a set_current_sensors call whose list is, as a set, the selection already
\* installed issues no subscribe and no unsubscribe call.
C4_IdempotentResubscription ==
  (ev = "set_sensors_done" /\ Range(ui.prev) = Range(ui.names)) => calls = {}

\* The second call repeats the selected pair in the other order.
C4_Witness ==
  /\ ev = "set_sensors_done"
  /\ Len(ui.prev) = 2
  /\ Range(ui.prev) = Range(ui.names)
  /\ ui.prev # ui.names
  /\ connected

\* C5 as stated: when set_current_sensors ends after a call whose set differs from
\* the one selected before, the sample index is 0, the time buffer and every value
\* buffer are empty and every last value is None.
C5_ResetOnSetChange ==
  (ev = "set_sensors_done" /\ Range(ui.prev) # Range(ui.names)) =>
     /\ measurement_sample_index = 0
     /\ buf_t_s = << >>
     /\ \A m \in DOMAIN buf_values : buf_values[m] = << >>
     /\ \A m \in DOMAIN last_values : last_values[m] = None

\* A step of a set_current_sensors call that changes the set, after its reset.
AfterReset ==
  /\ ui.pc \in {"scs_ensure", "scs_install", "scs_diff"}
  /\ Range(ui.prev) # Range(ui.uniq)

\* C5 with the samples that arrive during the call: the reset step of
\* set_current_sensors leaves the sample index 0, the time buffer and every value
\* buffer empty and every last value None; when the call ends the index is still 0
\* and the buffers are still empty; and from the reset to the end of the call a
\* last value is set only by the second lock section of mqtt_on_message.
C5_ResetThenSamples ==
  /\ [][ev' = "set_sensors_reset" =>
          /\ measurement_sample_index' = 0
          /\ buf_t_s' = << >>
          /\ \A m \in DOMAIN buf_values' : buf_values'[m] = << >>
          /\ \A m \in DOMAIN last_values' : last_values'[m] = None]_vars
  /\ []((ev = "set_sensors_done" /\ Range(ui.prev) # Range(ui.names)) =>
          /\ measurement_sample_index = 0
          /\ buf_t_s = << >>
          /\ \A m \in DOMAIN buf_values : buf_values[m] = << >>)
  /\ [][(AfterReset /\ \E m \in DOMAIN last_values' :
                          /\ last_values'[m] # None
                          /\ m \in DOMAIN last_values => last_values[m] # last_values'[m])
          => ev' = "message_last"]_vars

\* The set changed from a selection with SensorLux to one that keeps SensorLux, and
\* a sample of SensorLux was written between the reset and the end of the call.
C5_Witness ==
  /\ ev = "set_sensors_done"
  /\ Range(ui.prev) = {"SensorLux"}
  /\ Range(ui.names) = {"SensorMov", "SensorLux"}
  /\ measurement_sample_index = 0
  /\ buf_t_s = << >>
  /\ last_values[<<"SensorLux", "Lux">>] = Some(300)

\* The read tick's decision in a session started with a limit of 2.0 s, on an
\* elapsed time read after the latest sample.
AutoCheck(samples) ==
  /\ ui.pc = "plots_check" /\ ui'.pc = "idle"
  /\ hist.clean /\ is_measuring
  /\ measurement_duration_s = Some(200)
  /\ measurement_sample_index = samples
  /\ ui.elapsed = measurement_elapsed_s

\* C7 as stated: with a limit of 2.0 s and a period of 0.25 s, the read tick after
\* 8 accepted samples leaves the session Stopped with elapsedSeconds = 2.0.
C7_AutoStopAfter8 ==
  [][AutoCheck(8) => (~is_measuring' /\ measurement_elapsed_s' = 200)]_vars

\* What the code does where C7 expects the stop: after 8 accepted samples
\* elapsedSeconds is 1.75 and the read tick leaves the session Running; the read
\* tick after 9 accepted samples leaves it Stopped with elapsedSeconds = 2.0.
C7_AutoStopAfter9 ==
  /\ [][AutoCheck(9) => (~is_measuring' /\ measurement_elapsed_s' = 200)]_vars
  /\ [][AutoCheck(8) => (is_measuring' /\ measurement_elapsed_s' = 175)]_vars

\* The session was stopped by the read tick after the ninth sample.
C7_Witness ==
  /\ ev = "tick_stopped"
  /\ ~is_measuring
  /\ measurement_sample_index = 9
  /\ measurement_elapsed_s = 200
  /\ Len(buf_t_s) = 9

\* C10: save_series on an empty time buffer is refused and leaves series_data and
\* series_counter as they were: the copy it takes under the lock is the time
\* buffer, and the step that tests the copy finds the time buffer as it was
\* copied and, when it is empty, ends the handler with the refusal.
C10_EmptySaveRejected ==
  [][/\ (ui.pc = "save_copy" /\ ui'.pc # "save_copy") =>
          /\ ui'.copy.t_s = buf_t_s
          /\ UNCHANGED <<series_data, series_counter>>
     /\ (ui.pc = "save_append" /\ ui'.pc # "save_append") => ui.copy.t_s = buf_t_s
     /\ (ui.pc = "save_append" /\ ui'.pc # "save_append" /\ buf_t_s = << >>) =>
          /\ ev' = "save_rejected"
          /\ ui'.pc = "idle"
          /\ UNCHANGED <<series_data, series_counter>>]_vars

\* A save was refused while the store held a series.
C10_Witness ==
  /\ ev = "save_rejected"
  /\ Len(series_data) = 1
  /\ series_counter = 1
  /\ buf_t_s = << >>

\* C11: between handlers, the time buffer and the value buffer of every id of
\* current_metric_ids have the same length, whatever setSensors, setChannels,
\* start, stop and onSample did before.
C11_EqualLengthAlways ==
  (ui.pc = "idle" /\ net.pc = "idle") =>
     \A i \in 1..Len(current_metric_ids) :
        /\ current_metric_ids[i] \in DOMAIN buf_values
        /\ Len(buf_values[current_metric_ids[i]]) = Len(buf_t_s)

\* The first step of set_current_sensors, with the list it was called with.
SetSensorsStep == ui.pc = "idle" /\ ui'.pc \in {"scs_reset", "scs_ensure"}

\* Any later step of the set_current_sensors call under way.
SetSensorsLater == ui.pc \in {"scs_reset", "scs_ensure", "scs_install", "scs_diff"}

\* The sensor set of the call differs from the selected one.
SetChanges == Range(selected_sensors) # Range(ui'.uniq)

\* The reset of a call whose set differs.
SetSensorsResetStep == ui.pc = "scs_reset" /\ ui'.pc # "scs_reset"

\* C12 as stated: a change of the sensor set leaves every saved series in place.
C12_ResetKeepsStore ==
  [][(SetSensorsStep \/ SetSensorsLater) => UNCHANGED <<series_data, series_counter>>]_vars

\* C12 as the code has it: a set_current_sensors call that changes the sensor set
\* empties series_data, zeroes series_counter and returns the view to live; a call
\* with the same set leaves them unchanged; and no step other than that reset and
\* clear_all removes a saved series.
C12_ResetWipesStore ==
  /\ [][SetSensorsStep => (ui'.pc = "scs_reset") = SetChanges]_vars
  /\ [][SetSensorsResetStep =>
          series_data' = << >> /\ series_counter' = 0 /\ display_series_index' = None]_vars
  /\ [][((SetSensorsStep \/ SetSensorsLater) /\ ~SetSensorsResetStep) =>
          UNCHANGED <<series_data, series_counter, display_series_index>>]_vars
  /\ [](ev = "set_sensors_done" /\ Range(ui.prev) # Range(ui.uniq)
          => series_data = << >> /\ series_counter = 0)
  /\ [][\/ /\ Len(series_data') >= Len(series_data)
           /\ SubSeq(series_data', 1, Len(series_data)) = series_data
        \/ /\ series_data' = << >>
           /\ SetSensorsResetStep \/ ev' = "clear_all"]_vars

\* A page load with another sensor set has just emptied a store of one series.
C12_Witness ==
  /\ ev = "set_sensors_done"
  /\ hist.wiped = 1
  /\ series_data = << >>
  /\ series_counter = 0

\* The steps that end a Running session according to the stated machine: stop(),
\* the auto-stop, save() and the reset of a sensor-set change.
MachineStops == {"stopped", "tick_stopped", "save", "set_sensors_reset"}

\* C13 as stated: the session becomes Running only through start() and leaves
\* Running only through stop(), the auto-stop, save() or a sensor-set reset.
C13_StateMachine ==
  [][/\ (~is_measuring /\ is_measuring') => ev' = "start"
     /\ (is_measuring /\ ~is_measuring') => ev' \in MachineStops]_vars

\* C13 with the handlers that also stop the session: it becomes Running only
\* through start_measurement and leaves Running only through stop_measurement, the
\* auto-stop of update_plots, save_series, clear_all, display_series or the reset of
\* a sensor-set change; a sample and configure_time never change it, and
\* apply_channel_selection changes it only by the auto-stop of its closing
\* update_plots.
C13_StateMachineOfCode ==
  [][/\ (~is_measuring /\ is_measuring') => ev' = "start"
     /\ (is_measuring /\ ~is_measuring') =>
           ev' \in MachineStops \cup {"clear_all", "display_stopped", "start_undone"}
     /\ ev' \in {"message_tick", "message_last", "message_dropped", "message_accepted",
                 "configure_time", "apply", "applied", "applied_ids", "apply_rejected"}
           => UNCHANGED is_measuring
     /\ ev' = "tick_stopped" => AutoStops]_vars

\* display_series has just stopped a Running session that holds data.
C13_Witness ==
  /\ ev = "display_stopped"
  /\ ~is_measuring
  /\ Len(buf_t_s) > 0
  /\ display_series_index # None

\* C14: when start_measurement ends the session is Running, the sample index and
\* the elapsed time are 0, the time buffer and every value buffer are empty and the
\* view is live; and while that session runs the first buffered time is 0.
C14_StartClean ==
  /\ ev = "started" =>
        /\ is_measuring
        /\ measurement_sample_index = 0
        /\ measurement_elapsed_s = 0
        /\ buf_t_s = << >>
        /\ \A m \in DOMAIN buf_values : buf_values[m] = << >>
        /\ display_series_index = None
  /\ (hist.session /\ is_measuring /\ buf_t_s # << >>) => buf_t_s[1] = 0

\* The first sample of a session started after an earlier one was saved.
C14_Witness ==
  /\ ev = "message_tick"
  /\ hist.session
  /\ is_measuring
  /\ buf_t_s = <<0>>
  /\ Len(series_data) = 1

\* The series record holds the time buffer and the buffer of every active metric.
Archived(rec) ==
  /\ rec.t_s = buf_t_s
  /\ \A m \in Range(current_metric_ids) :
        m \in DOMAIN rec.values /\ rec.values[m] = buf_values[m]

\* C15: a save with a non-empty time buffer appends exactly one series equal to the
\* live buffers; when its clear runs the buffers still equal that series, so no
\* sample is dropped unarchived, and afterwards the buffers are empty, the sample
\* index and the elapsed time are 0 and the session is not Running.
C15_SaveArchives ==
  [][/\ (ui.pc = "save_copy" /\ ui'.pc # "save_copy") =>
          /\ ui'.copy.t_s = buf_t_s
          /\ \A m \in Range(page.metric_ids) \cap DOMAIN buf_values :
                ui'.copy.values[m] = buf_values[m]
     /\ (ui.pc = "save_append" /\ ui'.pc # "save_append" /\ buf_t_s # << >>) =>
          /\ ui'.pc = "save_clear"
          /\ Len(series_data') = Len(series_data) + 1
          /\ SubSeq(series_data', 1, Len(series_data)) = series_data
          /\ Archived(Last(series_data'))
     /\ ui.pc = "save_clear" /\ ui'.pc = "idle" =>
          /\ Archived(Last(series_data))
          /\ Last(series_data).t_s = hist.t
          /\ series_data' = series_data
          /\ buf_t_s' = << >>
          /\ \A m \in DOMAIN buf_values' : buf_values'[m] = << >>
          /\ measurement_sample_index' = 0
          /\ measurement_elapsed_s' = 0
          /\ ~is_measuring']_vars

\* A saved two-sample recording, with a sample of the network thread in flight.
C15_Witness ==
  /\ ev = "saved"
  /\ net.pc = "write"
  /\ Len(series_data) = 1
  /\ series_data[1].t_s = <<0, 25>>
  /\ buf_t_s = << >>

\* A step of a save that finds the time buffer empty: the first statement of
\* save_series with the buffer empty (no tick can fill it once is_measuring is
\* False), and the copy that ends the handler.
RejectedSaveStep ==
  \/ ui.pc = "idle" /\ ui'.pc = "save_copy" /\ buf_t_s = << >>
  \/ ui.pc = "save_copy" /\ ui'.pc = "save_append" /\ buf_t_s = << >>
  \/ ui.pc = "save_append" /\ ui'.pc = "idle"

\* C16: a save rejected for an empty time buffer changes no state: the session
\* state, the sample index, the elapsed time, the last values, the display pointer
\* and the stored series are as before the call.
C16_RejectedSaveNoChange ==
  [][RejectedSaveStep =>
       UNCHANGED <<is_measuring, measurement_sample_index, measurement_elapsed_s,
                   last_values, display_series_index, series_data, series_counter>>]_vars

\* The limit can be reached within the ticks the model lets a session take.
LimitWithinBound ==
  /\ measurement_duration_s # None
  /\ measurement_duration_s[1] <= TickTime(AutoTicks - 1)

\* C17: a read tick of a Running session with a limit reads the elapsed time and
\* stops the session exactly when the value read is >= the limit; a read tick of a
\* session that is not Running or has no limit leaves is_measuring alone; and with
\* ticks and samples continuing, a Running session with a limit is eventually
\* Stopped (or started anew, or given another limit, by the user).
C17_PolledAutoStop ==
  /\ [][/\ (ui.pc \in {"idle", "plots"} /\ ui'.pc = "plots_check") =>
             /\ is_measuring /\ measurement_duration_s # None
             /\ ui'.elapsed = measurement_elapsed_s
             /\ UNCHANGED is_measuring
        /\ (ui.pc = "plots_check" /\ ui'.pc = "idle") =>
             is_measuring' = (is_measuring /\ ui.elapsed < measurement_duration_s[1])
        /\ ev' = "tick" /\ ui.pc # "plots_check" =>
             /\ ~(is_measuring /\ measurement_duration_s # None)
             /\ UNCHANGED is_measuring]_vars
  /\ (is_measuring /\ LimitWithinBound)
       ~> (~is_measuring \/ ev = "start" \/ ~LimitWithinBound)

\* A session that ran past its limit of 2 s and was stopped by the read tick.
C17_Witness ==
  /\ ev = "tick_stopped"
  /\ ~is_measuring
  /\ measurement_duration_s = Some(200)
  /\ measurement_elapsed_s >= 200
  /\ hist.session

\* C18: when the read tick stops a session with limit L, the last buffered time
\* exceeds L by at most one sample period.
C18_OvershootOnePeriod ==
  (ev = "tick_stopped" /\ measurement_duration_s # None /\ buf_t_s # << >>) =>
     Last(buf_t_s) <= measurement_duration_s[1] + TickTime(1)

\* A required key of the sensor's profile, other than t_ms, is absent.
MissingRequired(sensor_name, j) ==
  \E i \in 1..Len(get_profile(sensor_name).required_keys) :
     LET rk == get_profile(sensor_name).required_keys[i]
     IN  rk # "t_ms" /\ rk \notin DOMAIN j

\* The value is an integer or a float without a fractional part.
IntegerValued(v) == v[1] = "int" \/ (v[1] = "float" /\ v[2] % 100 = 0)

\* What the ingestion state holds: last values, dropped count, buffers, index,
\* elapsed time.
IngestFrame ==
  UNCHANGED <<last_values, last_avg_dropped, buf_t_s, buf_values,
              measurement_sample_index, measurement_elapsed_s>>

\* The message is a decoded object that is to be rejected: sensor not selected,
\* required field missing, or t_ms not acceptable (timeOk false).
RejectedAt(msg, timeOk) ==
  /\ msg.payload.kind = "object"
  /\ \/ ~Contains(selected_sensors, msg.topic[2])
     \/ MissingRequired(msg.topic[2], msg.payload.fields)
     \/ ~timeOk

\* C19 as stated: a sample whose sensor is not selected, that lacks a required
\* field, or whose t_ms is not an integer or an integer-valued float, ends in the
\* first part of mqtt_on_message; and the second part never writes for a t_ms that
\* is not integer-valued.
C19_RejectedSampleIntegerTime ==
  [][/\ \A msg \in IngestMessages :
          (/\ RejectedAt(msg, IntegerValued(JsonGet(msg.payload.fields, "t_ms")))
           /\ OnMessageRecv({msg}))
          => (net' = NetIdle /\ IngestFrame)
     /\ (net.pc = "write" /\ net'.pc = "idle"
         /\ ~IntegerValued(JsonGet(net.payload, "t_ms"))) => IngestFrame]_vars

\* C19 with the conversion of the code: a sample whose sensor is not selected, that
\* lacks a required field, or whose t_ms is absent, null or not a number, is
\* dropped and leaves the last values, the dropped count, the buffers, the sample
\* index and the elapsed time unchanged; what reaches the second part has a t_ms
\* that _to_int converts (a float is truncated) and every required field.
C19_RejectedSampleUnchanged ==
  [][/\ \A msg \in IngestMessages :
          (/\ RejectedAt(msg, _to_int(JsonGet(msg.payload.fields, "t_ms")) # None)
           /\ OnMessageRecv({msg}))
          => (net' = NetIdle /\ ev' = "message_dropped" /\ IngestFrame)
     /\ (net.pc = "write" /\ net'.pc = "idle") =>
          /\ _to_int(JsonGet(net.payload, "t_ms")) # None
          /\ ~MissingRequired(net.sensor, net.payload)
     /\ ev' = "message_dropped" => IngestFrame]_vars

\* A sample was dropped while a running session holds one tick.
C19_Witness ==
  /\ ev = "message_dropped"
  /\ is_measuring
  /\ buf_t_s = <<0>>
  /\ Contains(selected_sensors, "SensorMov")
  /\ last_values[<<"SensorLux", "Lux">>] = Some(300)

\* C20: mqtt_on_message returns normally for every payload.
C20_NeverRaises == ev # "message_raised"

\* The metrics mqtt_on_message computes from a message of the sensor: those of
\* its profile that the channel restriction read with the message keeps.
ComputedFrom(sensor_name, channels) ==
  {m \in AllQids : m[1] = sensor_name /\ (channels = None \/ m[2] \in channels[1])}

\* C21: an accepted sample that is written while the session is not Running
\* stores the value of every metric computed from it in last_values and its
\* dropped count in last_avg_dropped, and leaves the time buffer, the value
\* buffers, the sample index and the elapsed time unchanged.
C21_IdleSampleUpdatesLast ==
  [][(net.pc = "write" /\ net'.pc = "idle" /\ ~is_measuring) =>
       /\ \A m \in ComputedFrom(net.sensor, net.channels) :
             m \in DOMAIN last_values' /\ last_values'[m] = Converted(m, net.payload)
       /\ last_avg_dropped' =
            (IF net.sensor = "SensorX" /\ "avg_dropped" \in DOMAIN net.payload
                /\ net.payload["avg_dropped"][1] = "int"
             THEN Some(net.payload["avg_dropped"][2]) ELSE None)
       /\ UNCHANGED <<buf_t_s, buf_values, measurement_sample_index,
                      measurement_elapsed_s>>]_vars

\* A stopped session that holds a tick took a sample of SensorX after one of
\* SensorLux.
C21_Witness ==
  /\ ev = "message_last"
  /\ ~is_measuring
  /\ buf_t_s # << >>
  /\ last_avg_dropped = Some(2)
  /\ <<"SensorLux", "Lux">> \in DOMAIN last_values
  /\ last_values[<<"SensorLux", "Lux">>] = Some(300)

\* <prefix>/<sensorId>/data of every sensor of the list
TopicSet(sensor_names) == {<<EQ_PREFIX, sensor_names[i], "data">> : i \in 1..Len(sensor_names)}

\* C22: with O the topics of the selection before the call and N those of the
\* call's list, set_current_sensors issues unsubscribe exactly for O \ N,
\* subscribe exactly for N \ O and no call for a topic of both.
C22_TopicDiff ==
  ev = "set_sensors_done" =>
     LET O == TopicSet(ui.prev)
         N == TopicSet(ui.names)
     IN  /\ {c[2] : c \in {d \in calls : d[1] = "unsubscribe"}} = O \ N
         /\ {c[2] : c \in {d \in calls : d[1] = "subscribe"}} = N \ O
         /\ \A c \in calls : c[1] \in {"subscribe", "unsubscribe"} /\ c[2] \notin O \cap N

\* SensorMov is replaced by SensorX while SensorLux stays selected.
C22_Witness ==
  /\ ev = "set_sensors_done"
  /\ Range(ui.prev) = {"SensorMov", "SensorLux"}
  /\ Range(ui.names) = {"SensorLux", "SensorX"}
  /\ calls = {<<"unsubscribe", <<EQ_PREFIX, "SensorMov", "data">>>>,
              <<"subscribe", <<EQ_PREFIX, "SensorX", "data">>>>}

\* The metrics the selection and the channel map activate: every catalog metric
\* of a selected sensor that has no entry in the map or lists the metric.
DerivedIds ==
  {q \in AllQids :
     /\ Contains(selected_sensors, q[1])
     /\ q[1] \notin DOMAIN selected_channel_map \/ q[2] \in selected_channel_map[q[1]]}

\* C23: after every set_current_sensors and every apply_channel_selection,
\* current_metric_ids holds exactly the metrics derived from selected_sensors and
\* selected_channel_map.
C23_ActiveIdsDerived ==
  ev \in {"set_sensors_done", "applied"} => Range(current_metric_ids) = DerivedIds

\* C24: whenever no handler is under way, every sensor of selected_sensors has at
\* least one metric in current_metric_ids.
C24_SelectedSensorHasMetric ==
  ui.pc = "idle" =>
     \A i \in 1..Len(selected_sensors) :
        \E k \in 1..Len(current_metric_ids) : current_metric_ids[k][1] = selected_sensors[i]

\* C25: a sensor_checklist evaluation returns every sensor announced at most
\* SENSOR_STALE_S before it; a sensor announced longer ago is not returned and is
\* no longer in available_sensors.
C25_DiscoveryWindow ==
  ev \in {"checklist", "page_index", "select_all_refresh", "clear_selection"} =>
     \A s \in Sensors :
        track.announced[s] # None =>
           IF track.clock - track.announced[s][1] <= SENSOR_STALE_S
           THEN s \in track.returned
           ELSE s \notin track.returned /\ s \notin available_sensors

\* C26: after a sensor_checklist evaluation, no sensor it evicted as stale (last
\* announced more than SENSOR_STALE_S ago) is in state.selected_sensors.
C26_EvictedLeavesSelection ==
  ev \in {"checklist", "page_index", "select_all_refresh", "clear_selection"} =>
     \A s \in track.evicted :
        (track.announced[s] # None /\ track.clock - track.announced[s][1] > SENSOR_STALE_S)
           => ~Contains(selected_sensors, s)

\* C27: a series of series_data keeps its name, its times, its values and its
\* metric ids in every step after which it is still in series_data.
C27_SnapshotImmutable ==
  [][\A i \in 1..Len(series_data) :
        i <= Len(series_data') => series_data'[i] = series_data[i]]_vars

\* A third recording runs with two saved series of different lengths behind it.
C27_Witness ==
  /\ Len(series_data) = 2
  /\ series_data[1].t_s = <<0, 25>>
  /\ series_data[2].t_s = <<0>>
  /\ is_measuring
  /\ buf_t_s = <<0>>

\* The display pointer is live or an index of series_data.
ValidPointer ==
  \/ display_series_index = None
  \/ display_series_index[1] \in 0..(Len(series_data) - 1)

\* C28: display_series sets the pointer to the index of the first series of the
\* given name, and to None when there is no value or no series of that name; the
\* pointer is always None or an index of series_data.
C28_DisplayPointer ==
  /\ [][\A value \in DisplayValues(1..MaxSeries) :
          display_series(value) =>
             LET hits == {i \in 1..Len(series_data) :
                            value # None /\ series_data[i].name = value[1]}
             IN  IF hits = {} THEN display_series_index' = None
                 ELSE /\ display_series_index' # None
                      /\ display_series_index'[1] + 1 \in hits
                      /\ \A i \in hits : display_series_index'[1] + 1 <= i]_vars
  /\ []ValidPointer

\* The second of two saved series is on display.
C28_Witness ==
  /\ ev \in {"display_series", "display_stopped"}
  /\ Len(series_data) = 2
  /\ display_series_index = Some(1)
  /\ series_data[2].name = 2

\* C29: clear_all leaves series_data empty and the display pointer None, and none
\* of its steps changes available_sensors, selected_sensors, current_topics, the
\* channel map or current_metric_ids.
C29_ClearAllFrame ==
  /\ [][(ui.pc = "clear_clear" \/ ui'.pc = "clear_clear") /\ ui'.pc # ui.pc =>
          /\ series_data' = << >>
          /\ display_series_index' = None
          /\ UNCHANGED <<available_sensors, selected_sensor, current_topic,
                         selected_sensors, current_topics, selected_channel_map,
                         current_metric_ids>>]_vars
  /\ [](ev = "cleared" => series_data = << >> /\ display_series_index = None)

\* clear_all has just emptied a store of two series on a page of two sensors with
\* a restricted channel map, while a sensor is announced.
C29_Witness ==
  /\ ev = "clear_all"
  /\ hist.wiped = 2
  /\ series_data = << >>
  /\ display_series_index = None
  /\ available_sensors # {}
  /\ Len(selected_sensors) = 2
  /\ \E s \in DOMAIN selected_channel_map :
       selected_channel_map[s] # Range(get_metric_ids(s))

\* The steps that are one 'with state.data_lock' block (or a function whose whole
\* body is one): the write of on_message; the read of the selection,
\* reset_all_state, ensure_metric_buffers and the install of set_current_sensors;
\* clear_current_measurement; the copy of save_series; and the map assignment and
\* ensure_metric_buffers of apply_channel_selection.
LockSections ==
  {"message_tick", "message_last", "page_dashboard", "open_dashboard",
   "set_current_sensor", "set_sensors_reset", "set_sensors_ensure",
   "set_sensors_install", "started", "saved", "save_copied", "cleared", "apply",
   "applied"}

\* The store's selection, buffers, last values, session and series.
SharedState ==
  <<selection, selected_channel_map, buffers, session, series>>

\* C30: the selection, the buffers, the last values, the session fields and the
\* series with the display pointer change only in steps that hold data_lock.
C30_WritesUnderLock ==
  [][SharedState' # SharedState => ev' \in LockSections]_vars

\* C31: no handler blocks on data_lock (page_dashboard never reaches the nested
\* ensure_metric_buffers call), no lock section makes a subscribe or unsubscribe
\* call, and every handler that was entered runs to its end.
C31_NoLockSuspension ==
  /\ [](ui.pc # "blocked")
  /\ [][(subscribed' # subscribed \/ ~(calls' \subseteq calls)) =>
          ev' \notin LockSections \cup {"connect", "tick_read", "page_built"}]_vars
  /\ (ui.pc # "idle") ~> (ui.pc = "idle")

\* A page of a sensor without metrics and a sensor with metrics was built after
\* the transport calls of set_current_sensors: current_metric_ids was not empty.
C31_Witness ==
  /\ ev = "page_built"
  /\ page.sensor_names = <<"SensorX", "SensorLux">>
  /\ current_metric_ids # << >>
  /\ calls # {}
  /\ ui.pc = "plots"

\* C32 as stated: in every state measurement_elapsed_s equals
\* measurement_sample_index times the sample period.
C32_ElapsedIsIndexTimesPeriod ==
  measurement_elapsed_s = measurement_sample_index * SAMPLE_PERIOD_S

\* What the code stores where C32 expects the product: measurement_elapsed_s is
\* the time of the latest sample, (measurement_sample_index - 1) periods, and 0
\* before the first.
C32_ElapsedIsLastSampleTime ==
  measurement_elapsed_s =
    IF measurement_sample_index = 0 THEN 0
    ELSE (measurement_sample_index - 1) * SAMPLE_PERIOD_S

\* The second sample of a session has just been recorded.
C32_Witness ==
  /\ ev = "message_tick"
  /\ is_measuring
  /\ measurement_sample_index = 2
  /\ measurement_elapsed_s = SAMPLE_PERIOD_S
  /\ Len(buf_t_s) = 2

\* C33: whenever the measurement client is connected and neither
\* set_current_sensors nor mqtt_on_connect is under way, the topics subscribed at
\* the broker are exactly the data topics of selected_sensors.
C33_SubscriptionsTrackSelection ==
  (/\ connected
   /\ ui.pc \notin {"scs_reset", "scs_ensure", "scs_install", "scs_diff"}
   /\ net.pc # "subscribe")
  => subscribed = TopicSet(selected_sensors)

\* C34: whenever mqtt_on_message writes last_values or appends a tick, the
\* message's sensor is in selected_sensors at that moment, and every key of
\* last_values is in current_metric_ids.
C34_TickOfSelectedSensor ==
  /\ [][ev' \in {"message_tick", "message_last"} /\ net.pc = "write" =>
          Contains(selected_sensors, net.sensor)]_vars
  /\ [](DOMAIN last_values \subseteq Range(current_metric_ids))

\* C35: in every state series_counter is the number of stored series and the
\* i-th series carries the number i in its name, so no two series share a name.
C35_NamesSequential ==
  /\ series_counter = Len(series_data)
  /\ \A i \in 1..Len(series_data) : series_data[i].name = i
  /\ \A i, k \in 1..Len(series_data) :
        series_data[i].name = series_data[k].name => i = k

\* A second series has just been appended.
C35_Witness ==
  /\ ev = "save_appended"
  /\ series_counter = 2
  /\ Len(series_data) = 2
  /\ series_data[1].name = 1
  /\ series_data[2].name = 2

=============================================================================
